---------------------------- MODULE Spec2Model ----------------------------
(***************************************************************************)
(* Lock-free pool, stack and queues of davidra/Lockfreedom.                *)
(*                                                                         *)
(* Every access to memory that another thread can reach (the pool head,    *)
(* the top / front / back words, and the fields of a slot) is one step of  *)
(* the thread that makes it.  A slot of the pool is modelled by its two    *)
(* words: the first one is read by the pool as tNode::mNext.mIdx and by    *)
(* the containers as the node's mData (they alias: the pool reuses the     *)
(* bytes of a free element for its free list), the second one is the       *)
(* node's mPrev.  tNode::mNext.mTag is written once by ReleaseAllPtrs and  *)
(* its value is never used, so it is left out.                             *)
(*                                                                         *)
(* tIndex is modelled in its 16-bit form (sizeof(T) < 8); the 32-bit form  *)
(* differs only in the modulus.  compare_exchange_weak may also fail       *)
(* spuriously; such a failure sends the thread back to a place of its loop *)
(* it has already been at with the same memory, as a failure caused by     *)
(* another thread does, so only the latter is modelled.                    *)
(***************************************************************************)
EXTENDS Integers, Sequences, FiniteSets, Bags, TLC

\* ------------------------------------------------------------------ bounds
NumThreads == 2
\* requested capacity of the pool in the pool-only specification
PoolCapacity == 2
\* operations started in one behaviour of the pool-only specification
PoolOps == 5
\* largest value constructed in a slot by cLockFreePool::Acquire(args)
MaxValue == 2
\* capacity of the stack's pool and operations started on the stack
StackCapacity == 2
StackOps == 5
\* elements a local-storage queue holds (its pool has one more slot, for the
\* sentinel) and operations started on the queue
QueueSize == 2
QueueOps == 5
\* operations started on a queue fed by one producer
FifoOps == 5
\* Pushes started on the queue whose consumer never stops calling Pop
LivePushes == 3
\* operations started on a container whose threads keep taking steps
LockFreeOps == 4
\* operations started on a container used by one call at a time
SerialOps == 5

\* ------------------------------------------------------- program constants
\* std::numeric_limits<tIndex>::max() for tIndex = uint16_t
NULL_IDX == 65535
\* number of values of cLockFreePool::tTag (= tIndex)
IndexModulus == 65536
\* number of values of tTaggedPtr::tTag
TagModulus == 65536
\* the null pointer; a pointer to a slot is modelled by the slot's index
nullptr == -1

Min(a, b) == IF a < b THEN a ELSE b

VARIABLES
    \* configuration of the run, fixed by Init
    kind,         \* the container under test: "pool", "stack", "queue" or "mpsc"
    serial,       \* TRUE: an operation starts only when no other is in progress
    producers,    \* threads that call Push
    consumers,    \* threads that call Pop
    requested,    \* the capacity the pool's constructor was called with
    mCapacity,    \* cLockFreePool::mCapacity
    \* the life of the pool and its container: "constructing" and "allocated"
    \* inside the pool's constructor, then "live"; the container's destructor
    \* makes it "draining", "sentinel" (being released) and "dead"
    lifetime,
    \* the pool
    mHead,        \* cLockFreePool::mHead, [mIdx, mTag]
    mStorage,     \* first word of each slot: tNode::mNext.mIdx / the node's mData
    \* the containers
    mPrev,        \* second word of each slot: the node's mPrev
    mTop,         \* cLockFreeStack::mTop
    mFront,       \* cLockFreeQueue::mFront / cMPSCLockFreeQueue::mFront
    mBack,        \* cLockFreeQueue::mBack / cMPSCLockFreeQueue::mBack
    \* each thread's position and locals
    pc, op, arg, head_tmp, next, idx, old, prev, old_back, result, retval,
    \* history
    opsLeft,      \* operations that may still be started
    nHeld,        \* per slot: successful Acquires minus successful Releases
    held,         \* per thread: the slots whose pointer the thread has recorded
    pushOrder,    \* values in the order their Pushes took effect
    popOrder,     \* values in the order their Pops took effect (0: not yet read)
    ticket,       \* per thread: place of the operation in progress in popOrder
                  \* (a Pop) or in pushOrder (a queue Push)
    absStack,     \* the stack's contents as the successful CASes on mTop define it
    nodeStack,    \* the nodes that hold them, in the same order
    sawEmpty,     \* per thread in cLockFreeQueue::Pop: the front node had a null mPrev
    nSteps,       \* per thread in a queue Push: own steps taken so far
    acqFails,     \* per thread in a queue Push: failed CASes of AcquireIdx so far
    missed,       \* values whose Push had returned when a Pop found the queue empty
    pre,          \* serial use: the shared memory as it was at the last call
    last,         \* serial use: the call that returned last, and the memory it found
    acqSince,     \* per thread in AcquireIdx: Acquire CASes that succeeded since
                  \* the thread read mHead
    popSince,     \* per thread in Pop of the stack or the queue: Pop CASes that
                  \* succeeded since the thread read mTop / mFront
    qNodes,       \* MPMC queue: its nodes, in the order of the exchanges on mBack
    built,        \* MPMC queue: the nodes that hold a constructed T
    nAcquired,    \* pool: the Acquires that succeeded so far, modulo 2^w
    \* memory without sequential consistency (used by SpecWeak only)
    mo,           \* per location: its stores in modification order, each with
                  \* the view a release store hands to an acquire load
    view          \* per thread and location: the latest store the thread knows of

cfgVars   == <<kind, serial, producers, consumers, requested, mCapacity, lifetime>>
poolVars  == <<mHead, mStorage>>
contVars  == <<mPrev, mTop, mFront, mBack>>
locVars   == <<pc, op, arg, head_tmp, next, idx, old, prev, old_back, result, retval>>
histVars  == <<opsLeft, nHeld, held, pushOrder, popOrder, ticket, absStack, nodeStack,
               sawEmpty, nSteps, acqFails, missed, pre, last, acqSince, popSince, qNodes, built,
               nAcquired>>
weakVars  == <<mo, view>>
vars      == <<cfgVars, poolVars, contVars, locVars, histVars, weakVars>>

\* the threads of the run: the index set of the per-thread variables
Threads == DOMAIN pc

Slots == 0..(mCapacity - 1)

\* ----------------------------------------------------------------- values
tIndexTag(i, tag) == [mIdx |-> i, mTag |-> tag]
tNodePtr(p, tag)  == [ptr |-> p, tag |-> tag]
NullNodePtr       == tNodePtr(nullptr, 0)

IsNull(index) == index >= mCapacity

\* AllocateStorage: the capacity the pool ends with
max_capacity == NULL_IDX - 1
AllocateStorage(requested_capacity) == Min(requested_capacity, max_capacity)

\* a ReleaseAllPtrs that links no slot to the one released before it
ReleaseAllPtrsNextUnlinked(cap) == [i \in 0..(cap - 1) |-> NULL_IDX]

\* ReleaseAllPtrs: slot i is released onto the list built from slots 0..i-1
ReleaseAllPtrsNext(cap) == [i \in 0..(cap - 1) |-> IF i = 0 THEN NULL_IDX ELSE i - 1]

\* a fresh pool whose head is the slot released first
ReleaseAllPtrsHeadFirstSlot(cap) == tIndexTag(IF cap = 0 THEN NULL_IDX ELSE 0, 0)

\* a fresh pool whose head starts with the tag at one
ReleaseAllPtrsHeadTagOne(cap) == tIndexTag(IF cap = 0 THEN NULL_IDX ELSE cap - 1, 1)

\* ReleaseAllPtrs: mHead starts as (NULL_IDX, 0); the last slot released is the head
ReleaseAllPtrsHead(cap) == tIndexTag(IF cap = 0 THEN NULL_IDX ELSE cap - 1, 0)

\* -------------------------------------------------------------- bookkeeping
Upd(f, t, v) == [f EXCEPT ![t] = v]

InPush(t) == pc[t] # "idle" /\ op[t] \in {"QPush", "MPush"}

\* one more own step of a queue Push in progress
Tick(t) == nSteps' = IF op[t] \in {"QPush", "MPush"} THEN Upd(nSteps, t, nSteps[t] + 1)
                     ELSE nSteps

\* the shared memory: the pool's head and slots, the containers' words
Snapshot ==
    [mHead |-> mHead, mStorage |-> mStorage, mPrev |-> mPrev,
     mTop |-> mTop, mFront |-> mFront, mBack |-> mBack]

NoSnapshot ==
    [mHead |-> tIndexTag(0, 0), mStorage |-> <<>>, mPrev |-> <<>>,
     mTop |-> NullNodePtr, mFront |-> NullNodePtr, mBack |-> NullNodePtr]

NoCall == [op |-> "none", arg |-> 0, idx |-> 0, retval |-> FALSE, pre |-> NoSnapshot]

\* a call made one at a time notes the memory it finds
TakeSnapshot == pre' = IF serial THEN Snapshot ELSE pre

CanStart(t) ==
    /\ lifetime = "live"
    /\ pc[t] = "idle"
    /\ opsLeft > 0
    /\ serial => \A u \in Threads : pc[u] = "idle"
    /\ TakeSnapshot

\* where a caller continues when AcquireIdx has returned a slot
AfterAcquire(o) ==
    CASE o = "Acquire"    -> "construct"
      [] o = "AcquirePtr" -> "ret"
      [] o = "Push"       -> "s_ctor"
      [] o = "NAPush"     -> "s_ctor"
      [] o = "QPush"      -> "q_ctor"
      [] o = "MPush"      -> "m_ctor"
      [] o = "QNAPush"    -> "q_ctor"
      [] o = "MNAPush"    -> "m_ctor"

\* ------------------------------------------------------------------- pool
\* a caller that reports success whatever AcquireIdx returned
AcquireReturnTrue(t, i) ==
    /\ idx' = Upd(idx, t, i)
    /\ retval' = Upd(retval, t, TRUE)
    /\ pc' = Upd(pc, t, IF i = NULL_IDX THEN "ret" ELSE AfterAcquire(op[t]))

\* AcquireIdx returns index i (NULL_IDX: the pool is empty)
AcquireReturn(t, i) ==
    /\ idx' = Upd(idx, t, i)
    /\ retval' = Upd(retval, t, i # NULL_IDX)
    /\ pc' = Upd(pc, t, IF i = NULL_IDX THEN "ret" ELSE AfterAcquire(op[t]))

\* tIndexTag head_tmp = mHead.load(); if (IsNull(head_tmp.mIdx)) return NULL_IDX;
AcquireLoad(t) ==
    /\ pc[t] = "acq_load"
    /\ head_tmp' = Upd(head_tmp, t, mHead)
    /\ IF IsNull(mHead.mIdx)
         THEN AcquireReturn(t, NULL_IDX)
         ELSE /\ pc' = Upd(pc, t, "acq_next")
              /\ UNCHANGED <<idx, retval>>
    /\ Tick(t)
    /\ UNCHANGED <<cfgVars, poolVars, contVars, op, arg, next, old, prev, old_back, result>>
    /\ UNCHANGED weakVars
    /\ UNCHANGED <<opsLeft, nHeld, held, pushOrder, popOrder, ticket, absStack, nodeStack, sawEmpty, acqFails, missed, pre, last, popSince, qNodes, built, nAcquired>>
    /\ acqSince' = Upd(acqSince, t, 0)

\* const tIndexTag next = node->mNext;   (the slot may have been acquired meanwhile)
AcquireReadNext(t) ==
    /\ pc[t] = "acq_next"
    /\ next' = Upd(next, t, mStorage[head_tmp[t].mIdx])
    /\ pc' = Upd(pc, t, "acq_cas")
    /\ Tick(t)
    /\ UNCHANGED <<cfgVars, poolVars, contVars, op, arg, head_tmp, idx, old, prev, old_back, result, retval>>
    /\ UNCHANGED weakVars
    /\ UNCHANGED <<opsLeft, nHeld, held, pushOrder, popOrder, ticket, absStack, nodeStack, sawEmpty, acqFails, missed, pre, last, acqSince, popSince, qNodes, built, nAcquired>>

\* a head that keeps the tag: the ABA hole the tag is there to close
AcquireNewHeadSameTag(nxt, head) == tIndexTag(nxt, head.mTag)

\* a new head whose tag has one bit less
AcquireNewHeadNarrowTag(nxt, head) == tIndexTag(nxt, (head.mTag + 1) % (IndexModulus \div 2))

\* const tIndexTag tmp(next.mIdx, head_tmp.mTag + 1);
AcquireNewHead(nxt, head) == tIndexTag(nxt, (head.mTag + 1) % IndexModulus)

\* a compare_exchange that compares the index and not the tag
AcquireCASOkIndexOnly(t) ==
    /\ pc[t] = "acq_cas"
    /\ mHead.mIdx = head_tmp[t].mIdx
    /\ mHead' = AcquireNewHead(next[t], head_tmp[t])
    /\ nHeld' = Upd(nHeld, head_tmp[t].mIdx, nHeld[head_tmp[t].mIdx] + 1)
    /\ next' = Upd(next, t, 0)
    /\ AcquireReturn(t, head_tmp[t].mIdx)
    /\ Tick(t)
    /\ UNCHANGED <<cfgVars, mStorage, contVars, op, arg, head_tmp, old, prev, old_back, result>>
    /\ UNCHANGED weakVars
    /\ UNCHANGED <<opsLeft, held, pushOrder, popOrder, ticket, absStack, nodeStack, sawEmpty, acqFails, missed, pre, last, popSince, qNodes, built>>
    /\ acqSince' = [u \in Threads |-> IF u # t /\ pc[u] \in {"acq_next", "acq_cas"}
                                       THEN acqSince[u] + 1 ELSE 0]
    /\ nAcquired' = (nAcquired + 1) % IndexModulus

\* mHead.compare_exchange_weak(head_tmp, tmp) succeeds: return head_tmp.mIdx
AcquireCASOk(t) ==
    /\ pc[t] = "acq_cas"
    /\ mHead = head_tmp[t]
    /\ mHead' = AcquireNewHead(next[t], head_tmp[t])
    /\ nHeld' = Upd(nHeld, head_tmp[t].mIdx, nHeld[head_tmp[t].mIdx] + 1)
    /\ next' = Upd(next, t, 0)
    /\ AcquireReturn(t, head_tmp[t].mIdx)
    /\ Tick(t)
    /\ UNCHANGED <<cfgVars, mStorage, contVars, op, arg, head_tmp, old, prev, old_back, result>>
    /\ UNCHANGED weakVars
    /\ UNCHANGED <<opsLeft, held, pushOrder, popOrder, ticket, absStack, nodeStack, sawEmpty, acqFails, missed, pre, last, popSince, qNodes, built>>
    /\ acqSince' = [u \in Threads |-> IF u # t /\ pc[u] \in {"acq_next", "acq_cas"}
                                       THEN acqSince[u] + 1 ELSE 0]
    /\ nAcquired' = (nAcquired + 1) % IndexModulus

\* a failed CAS that leaves head_tmp as it was and goes round the loop
AcquireCASFailNoReload(t) ==
    /\ pc[t] = "acq_cas"
    /\ mHead # head_tmp[t]
    /\ pc' = Upd(pc, t, "acq_next")
    /\ UNCHANGED <<cfgVars, poolVars, contVars, op, arg, head_tmp, next, idx, old, prev, old_back, result, retval>>
    /\ UNCHANGED weakVars
    /\ UNCHANGED histVars

\* a failed CAS after which AcquireIdx gives up and returns NULL_IDX
AcquireCASFailGiveUp(t) ==
    /\ pc[t] = "acq_cas"
    /\ mHead # head_tmp[t]
    /\ head_tmp' = Upd(head_tmp, t, mHead)
    /\ next' = Upd(next, t, 0)
    /\ AcquireReturn(t, NULL_IDX)
    /\ UNCHANGED <<cfgVars, poolVars, contVars, op, arg, old, prev, old_back, result>>
    /\ UNCHANGED weakVars
    /\ UNCHANGED histVars

\* the CAS fails: head_tmp takes the current head and the loop goes round
AcquireCASFail(t) ==
    /\ pc[t] = "acq_cas"
    /\ mHead # head_tmp[t]
    /\ head_tmp' = Upd(head_tmp, t, mHead)
    /\ next' = Upd(next, t, 0)
    /\ IF IsNull(mHead.mIdx)
         THEN AcquireReturn(t, NULL_IDX)
         ELSE /\ pc' = Upd(pc, t, "acq_next")
              /\ UNCHANGED <<idx, retval>>
    /\ Tick(t)
    /\ acqFails' = IF op[t] \in {"QPush", "MPush"} THEN Upd(acqFails, t, acqFails[t] + 1)
                   ELSE acqFails
    /\ UNCHANGED <<cfgVars, poolVars, contVars, op, arg, old, prev, old_back, result>>
    /\ UNCHANGED weakVars
    /\ UNCHANGED <<opsLeft, nHeld, held, pushOrder, popOrder, ticket, absStack, nodeStack, sawEmpty, missed, pre, last, popSince, qNodes, built, nAcquired>>
    /\ acqSince' = Upd(acqSince, t, 0)

\* ReleaseIdx: tIndexTag head_tmp = mHead.load();
ReleaseLoad(t) ==
    /\ pc[t] = "rel_load"
    /\ head_tmp' = Upd(head_tmp, t, mHead)
    /\ pc' = Upd(pc, t, "rel_write")
    /\ UNCHANGED <<cfgVars, poolVars, contVars, op, arg, next, idx, old, prev, old_back, result, retval>>
    /\ UNCHANGED weakVars
    /\ UNCHANGED histVars

\* a release that makes the released node its own successor
ReleaseWriteNextSelf(t) ==
    /\ pc[t] = "rel_write"
    /\ mStorage' = Upd(mStorage, idx[t], idx[t])
    /\ pc' = Upd(pc, t, "rel_cas")
    /\ UNCHANGED <<cfgVars, mHead, contVars, op, arg, head_tmp, next, idx, old, prev, old_back, result, retval>>
    /\ UNCHANGED weakVars
    /\ UNCHANGED histVars

\* a release that ends the free list at the released node
ReleaseWriteNextNull(t) ==
    /\ pc[t] = "rel_write"
    /\ mStorage' = Upd(mStorage, idx[t], NULL_IDX)
    /\ pc' = Upd(pc, t, "rel_cas")
    /\ UNCHANGED <<cfgVars, mHead, contVars, op, arg, head_tmp, next, idx, old, prev, old_back, result, retval>>
    /\ UNCHANGED weakVars
    /\ UNCHANGED histVars

\* node->mNext.mIdx = head_tmp.mIdx;
ReleaseWriteNext(t) ==
    /\ pc[t] = "rel_write"
    /\ mStorage' = Upd(mStorage, idx[t], head_tmp[t].mIdx)
    /\ pc' = Upd(pc, t, "rel_cas")
    /\ UNCHANGED <<cfgVars, mHead, contVars, op, arg, head_tmp, next, idx, old, prev, old_back, result, retval>>
    /\ UNCHANGED weakVars
    /\ UNCHANGED histVars

\* mHead.compare_exchange_weak(head_tmp, tIndexTag(index, head_tmp.mTag)) succeeds
\* a Release that installs its slot with a fresh tag instead of the tag it read
ReleaseCASOkFreshTag(t) ==
    /\ pc[t] = "rel_cas"
    /\ mHead = head_tmp[t]
    /\ mHead' = tIndexTag(idx[t], 0)
    /\ nHeld' = Upd(nHeld, idx[t], nHeld[idx[t]] - 1)
    /\ pc' = Upd(pc, t, "ret")
    /\ retval' = Upd(retval, t, TRUE)
    /\ UNCHANGED <<cfgVars, mStorage, contVars, op, arg, head_tmp, next, idx, old, prev, old_back, result>>
    /\ UNCHANGED weakVars
    /\ UNCHANGED <<opsLeft, held, pushOrder, popOrder, ticket, absStack, nodeStack, sawEmpty, nSteps, acqFails, missed, pre, last, acqSince, popSince, qNodes, built, nAcquired>>

ReleaseCASOk(t) ==
    /\ pc[t] = "rel_cas"
    /\ mHead = head_tmp[t]
    /\ mHead' = tIndexTag(idx[t], head_tmp[t].mTag)
    /\ nHeld' = Upd(nHeld, idx[t], nHeld[idx[t]] - 1)
    /\ pc' = Upd(pc, t, "ret")
    /\ retval' = Upd(retval, t, TRUE)
    /\ UNCHANGED <<cfgVars, mStorage, contVars, op, arg, head_tmp, next, idx, old, prev, old_back, result>>
    /\ UNCHANGED weakVars
    /\ UNCHANGED <<opsLeft, held, pushOrder, popOrder, ticket, absStack, nodeStack, sawEmpty, nSteps, acqFails, missed, pre, last, acqSince, popSince, qNodes, built, nAcquired>>

\* a failed CAS after which the released node's next index is not written again
ReleaseCASFailNoRewrite(t) ==
    /\ pc[t] = "rel_cas"
    /\ mHead # head_tmp[t]
    /\ head_tmp' = Upd(head_tmp, t, mHead)
    /\ pc' = Upd(pc, t, "rel_cas")
    /\ UNCHANGED <<cfgVars, poolVars, contVars, op, arg, next, idx, old, prev, old_back, result, retval>>
    /\ UNCHANGED weakVars
    /\ UNCHANGED histVars

\* the CAS fails: head_tmp takes the current head, the do-while goes round
ReleaseCASFail(t) ==
    /\ pc[t] = "rel_cas"
    /\ mHead # head_tmp[t]
    /\ head_tmp' = Upd(head_tmp, t, mHead)
    /\ pc' = Upd(pc, t, "rel_write")
    /\ UNCHANGED <<cfgVars, poolVars, contVars, op, arg, next, idx, old, prev, old_back, result, retval>>
    /\ UNCHANGED weakVars
    /\ UNCHANGED histVars

\* T* Acquire(args...): the caller asks for a slot holding T(v)
PoolAcquire(t) ==
    /\ CanStart(t)
    /\ \E v \in 0..MaxValue : arg' = Upd(arg, t, v)
    /\ op' = Upd(op, t, "Acquire")
    /\ pc' = Upd(pc, t, "acq_load")
    /\ opsLeft' = opsLeft - 1
    /\ UNCHANGED <<cfgVars, poolVars, contVars, head_tmp, next, idx, old, prev, old_back, result, retval>>
    /\ UNCHANGED weakVars
    /\ UNCHANGED <<nHeld, held, pushOrder, popOrder, ticket, absStack, nodeStack, sawEmpty, nSteps, acqFails, missed, last, acqSince, popSince, qNodes, built, nAcquired>>

\* new (ptr) T(forward<Args>(args)...);
PoolConstruct(t) ==
    /\ pc[t] = "construct"
    /\ mStorage' = Upd(mStorage, idx[t], arg[t])
    /\ pc' = Upd(pc, t, "ret")
    /\ UNCHANGED <<cfgVars, mHead, contVars, op, arg, head_tmp, next, idx, old, prev, old_back, result, retval>>
    /\ UNCHANGED weakVars
    /\ UNCHANGED histVars

\* T* AcquirePtr()
PoolAcquirePtr(t) ==
    /\ CanStart(t)
    /\ op' = Upd(op, t, "AcquirePtr")
    /\ pc' = Upd(pc, t, "acq_load")
    /\ opsLeft' = opsLeft - 1
    /\ UNCHANGED <<cfgVars, poolVars, contVars, arg, head_tmp, next, idx, old, prev, old_back, result, retval>>
    /\ UNCHANGED weakVars
    /\ UNCHANGED <<nHeld, held, pushOrder, popOrder, ticket, absStack, nodeStack, sawEmpty, nSteps, acqFails, missed, last, acqSince, popSince, qNodes, built, nAcquired>>

\* Release(ptr) / ReleasePtr(ptr) of a pointer the caller holds (for the int
\* elements of the pool's own tests the destructor that tells them apart is empty)
PoolRelease(t) ==
    /\ CanStart(t)
    /\ \E i \in held[t] :
         /\ idx' = Upd(idx, t, i)
         /\ held' = Upd(held, t, held[t] \ {i})
    /\ op' = Upd(op, t, "Release")
    /\ pc' = Upd(pc, t, "rel_load")
    /\ opsLeft' = opsLeft - 1
    /\ UNCHANGED <<cfgVars, poolVars, contVars, arg, head_tmp, next, old, prev, old_back, result, retval>>
    /\ UNCHANGED weakVars
    /\ UNCHANGED <<nHeld, pushOrder, popOrder, ticket, absStack, nodeStack, sawEmpty, nSteps, acqFails, missed, last, acqSince, popSince, qNodes, built, nAcquired>>

\* the operation returns to its caller, which records an acquired pointer
Return(t) ==
    /\ pc[t] = "ret"
    /\ pc' = Upd(pc, t, "idle")
    /\ held' = IF op[t] \in {"Acquire", "AcquirePtr"} /\ retval[t]
                 THEN Upd(held, t, held[t] \cup {idx[t]})
                 ELSE held
    /\ op' = Upd(op, t, "none")
    /\ arg' = Upd(arg, t, 0)
    /\ head_tmp' = Upd(head_tmp, t, tIndexTag(0, 0))
    /\ next' = Upd(next, t, 0)
    /\ idx' = Upd(idx, t, 0)
    /\ old' = Upd(old, t, NullNodePtr)
    /\ prev' = Upd(prev, t, NullNodePtr)
    /\ old_back' = Upd(old_back, t, NullNodePtr)
    /\ result' = Upd(result, t, 0)
    /\ retval' = Upd(retval, t, FALSE)
    /\ ticket' = Upd(ticket, t, 0)
    /\ sawEmpty' = Upd(sawEmpty, t, FALSE)
    /\ nSteps' = Upd(nSteps, t, 0)
    /\ acqFails' = Upd(acqFails, t, 0)
    /\ UNCHANGED <<cfgVars, poolVars, contVars>>
    /\ UNCHANGED weakVars
    /\ last' = IF serial
                 THEN [op |-> op[t], arg |-> arg[t], idx |-> idx[t], retval |-> retval[t],
                       pre |-> pre]
                 ELSE last
    /\ UNCHANGED <<opsLeft, nHeld, pushOrder, popOrder, absStack, nodeStack, missed, pre, acqSince, popSince, qNodes, built, nAcquired>>

\* the steps of the pool that every specification shares
PoolStraight(t) ==
    \/ AcquireLoad(t)
    \/ AcquireReadNext(t)
    \/ AcquireCASOk(t)
    \/ ReleaseLoad(t)
    \/ ReleaseWriteNext(t)
    \/ ReleaseCASOk(t)
    \/ Return(t)

\* with the retries of the two CAS loops, which need another thread's step
PoolStep(t) ==
    \/ PoolStraight(t)
    \/ AcquireCASFail(t)
    \/ ReleaseCASFail(t)

\* the state of the threads and of the history before any operation
InitCallsOf(T) ==
    /\ pc = [t \in T |-> "idle"]
    /\ op = [t \in T |-> "none"]
    /\ arg = [t \in T |-> 0]
    /\ head_tmp = [t \in T |-> tIndexTag(0, 0)]
    /\ next = [t \in T |-> 0]
    /\ idx = [t \in T |-> 0]
    /\ old = [t \in T |-> NullNodePtr]
    /\ prev = [t \in T |-> NullNodePtr]
    /\ old_back = [t \in T |-> NullNodePtr]
    /\ result = [t \in T |-> 0]
    /\ retval = [t \in T |-> FALSE]
    /\ held = [t \in T |-> {}]
    /\ pushOrder = <<>>
    /\ popOrder = <<>>
    /\ ticket = [t \in T |-> 0]
    /\ absStack = <<>>
    /\ nodeStack = <<>>
    /\ sawEmpty = [t \in T |-> FALSE]
    /\ nSteps = [t \in T |-> 0]
    /\ acqFails = [t \in T |-> 0]
    /\ missed = {}
    /\ pre = NoSnapshot
    /\ last = NoCall
    /\ acqSince = [t \in T |-> 0]
    /\ popSince = [t \in T |-> 0]
    /\ built = {}

\* the same, with the pool and the container constructed
InitThreadsOf(T) ==
    /\ lifetime = "live"
    /\ InitCallsOf(T)
    /\ mo = <<>>
    /\ view = <<>>

InitThreads == InitThreadsOf(1..NumThreads)

\* cLockFreePool(n): AllocateStorage(n), ReleaseAllPtrs()
InitPoolOf(n) ==
    /\ requested = n
    /\ mCapacity = AllocateStorage(n)
    /\ mHead = ReleaseAllPtrsHead(AllocateStorage(n))
    /\ mStorage = ReleaseAllPtrsNext(AllocateStorage(n))
    /\ nHeld = [i \in 0..(AllocateStorage(n) - 1) |-> 0]
    /\ qNodes = <<>>
    /\ nAcquired = 0
    /\ mPrev = [i \in 0..(AllocateStorage(n) - 1) |-> NullNodePtr]

\* ------------------------------------------------ specification: the pool
InitPool ==
    /\ InitThreads
    /\ InitPoolOf(PoolCapacity)
    /\ kind = "pool"
    /\ serial = FALSE
    /\ producers = {}
    /\ consumers = {}
    /\ opsLeft = PoolOps
    /\ mTop = NullNodePtr
    /\ mFront = NullNodePtr
    /\ mBack = NullNodePtr

NextPool ==
    \E t \in Threads :
        \/ PoolAcquire(t)
        \/ PoolAcquirePtr(t)
        \/ PoolRelease(t)
        \/ PoolConstruct(t)
        \/ PoolStep(t)

SpecPool == InitPool /\ [][NextPool]_vars

\* C1: no slot is held by two callers at once: between the Acquire CAS that
\* hands a slot out and the Release CAS that takes it back, no other Acquire
\* returns it, and the pointers the threads have recorded are pairwise distinct.
C1_PoolUniqueness ==
    /\ \A i \in Slots : nHeld[i] \in {0, 1}
    /\ \A t, u \in Threads : t # u => held[t] \cap held[u] = {}
    /\ \A t \in Threads : \A i \in held[t] : nHeld[i] = 1

\* a slot that was released is handed out again while another thread holds a slot
C1_Witness ==
    /\ mHead.mTag > mCapacity
    /\ \E t, u \in Threads : t # u /\ held[t] # {} /\ held[u] # {}

\* ------------------------------------------------------------------ stack
Range(s) == {s[i] : i \in DOMAIN s}
BagOfSeq(s) == [v \in Range(s) |-> Cardinality({i \in DOMAIN s : s[i] = v})]
Got(s) == [i \in DOMAIN s |-> s[i].got]

\* the value a Push stores: the operations are numbered, so every value is pushed once
FreshValue == opsLeft

\* bool Push(args...): mNodePool.Acquire(args...) comes first
StackPush(t) ==
    /\ CanStart(t)
    /\ t \in producers
    /\ op' = Upd(op, t, "Push")
    /\ arg' = Upd(arg, t, FreshValue)
    /\ pc' = Upd(pc, t, "acq_load")
    /\ opsLeft' = opsLeft - 1
    /\ UNCHANGED <<cfgVars, poolVars, contVars, head_tmp, next, idx, old, prev, old_back, result, retval>>
    /\ UNCHANGED weakVars
    /\ UNCHANGED <<nHeld, held, pushOrder, popOrder, ticket, absStack, nodeStack, sawEmpty, nSteps, acqFails, missed, last, acqSince, popSince, qNodes, built, nAcquired>>

\* bool NonAtomicPush(args...)
StackNonAtomicPush(t) ==
    /\ CanStart(t)
    /\ serial
    /\ t \in producers
    /\ op' = Upd(op, t, "NAPush")
    /\ arg' = Upd(arg, t, FreshValue)
    /\ pc' = Upd(pc, t, "acq_load")
    /\ opsLeft' = opsLeft - 1
    /\ UNCHANGED <<cfgVars, poolVars, contVars, head_tmp, next, idx, old, prev, old_back, result, retval>>
    /\ UNCHANGED weakVars
    /\ UNCHANGED <<nHeld, held, pushOrder, popOrder, ticket, absStack, nodeStack, sawEmpty, nSteps, acqFails, missed, last, acqSince, popSince, qNodes, built, nAcquired>>

\* new (ptr) tLockFreeStackNode(data): mData(data), mPrev()
StackConstruct(t) ==
    /\ pc[t] = "s_ctor"
    /\ mStorage' = Upd(mStorage, idx[t], arg[t])
    /\ mPrev' = Upd(mPrev, idx[t], NullNodePtr)
    /\ pc' = Upd(pc, t, IF op[t] = "Push" THEN "s_link" ELSE "s_na_link")
    /\ UNCHANGED <<cfgVars, mHead, mTop, mFront, mBack, op, arg, head_tmp, next, idx, old, prev, old_back, result, retval>>
    /\ UNCHANGED weakVars
    /\ UNCHANGED histVars

\* LinkTopNodeAtomically: new_node->mPrev = mTop.load();
StackLinkLoad(t) ==
    /\ pc[t] = "s_link"
    /\ mPrev' = Upd(mPrev, idx[t], mTop)
    /\ pc' = Upd(pc, t, "s_cas")
    /\ UNCHANGED <<cfgVars, poolVars, mTop, mFront, mBack, op, arg, head_tmp, next, idx, old, prev, old_back, result, retval>>
    /\ UNCHANGED weakVars
    /\ UNCHANGED histVars

\* a Push whose new top carries the next tag instead of the tag it replaced
StackPushCASOkNextTag(t) ==
    /\ pc[t] = "s_cas"
    /\ mTop = mPrev[idx[t]]
    /\ mTop' = tNodePtr(idx[t], (mPrev[idx[t]].tag + 1) % TagModulus)
    /\ pushOrder' = Append(pushOrder, arg[t])
    /\ absStack' = Append(absStack, arg[t])
    /\ nodeStack' = Append(nodeStack, idx[t])
    /\ pc' = Upd(pc, t, "ret")
    /\ retval' = Upd(retval, t, TRUE)
    /\ UNCHANGED <<cfgVars, poolVars, mPrev, mFront, mBack, op, arg, head_tmp, next, idx, old, prev, old_back, result>>
    /\ UNCHANGED weakVars
    /\ UNCHANGED <<opsLeft, nHeld, held, popOrder, ticket, sawEmpty, nSteps, acqFails, missed, pre, last, acqSince, popSince, qNodes, built, nAcquired>>

\* new_node_ptr.Set(new_node, new_node->mPrev.GetTag()); the CAS on mTop succeeds
StackPushCASOk(t) ==
    /\ pc[t] = "s_cas"
    /\ mTop = mPrev[idx[t]]
    /\ mTop' = tNodePtr(idx[t], mPrev[idx[t]].tag)
    /\ pushOrder' = Append(pushOrder, arg[t])
    /\ absStack' = Append(absStack, arg[t])
    /\ nodeStack' = Append(nodeStack, idx[t])
    /\ pc' = Upd(pc, t, "ret")
    /\ retval' = Upd(retval, t, TRUE)
    /\ UNCHANGED <<cfgVars, poolVars, mPrev, mFront, mBack, op, arg, head_tmp, next, idx, old, prev, old_back, result>>
    /\ UNCHANGED weakVars
    /\ UNCHANGED <<opsLeft, nHeld, held, popOrder, ticket, sawEmpty, nSteps, acqFails, missed, pre, last, acqSince, popSince, qNodes, built, nAcquired>>

\* a failed CAS that leaves its expected value, new_node->mPrev, as it was
StackPushCASFailKeepExpected(t) ==
    /\ pc[t] = "s_cas"
    /\ mTop # mPrev[idx[t]]
    /\ mPrev' = mPrev
    /\ UNCHANGED <<cfgVars, poolVars, mTop, mFront, mBack, locVars>>
    /\ UNCHANGED weakVars
    /\ UNCHANGED histVars

\* the CAS fails and writes the current top into its expected value, new_node->mPrev
StackPushCASFail(t) ==
    /\ pc[t] = "s_cas"
    /\ mTop # mPrev[idx[t]]
    /\ mPrev' = Upd(mPrev, idx[t], mTop)
    /\ UNCHANGED <<cfgVars, poolVars, mTop, mFront, mBack, locVars>>
    /\ UNCHANGED weakVars
    /\ UNCHANGED histVars

\* a LinkTopNodeNonAtomically that stores the new top with the next tag
StackLinkNonAtomicallyNextTag(t) ==
    /\ pc[t] = "s_na_link"
    /\ mPrev' = Upd(mPrev, idx[t], mTop)
    /\ mTop' = tNodePtr(idx[t], (mTop.tag + 1) % TagModulus)
    /\ pushOrder' = Append(pushOrder, arg[t])
    /\ absStack' = Append(absStack, arg[t])
    /\ nodeStack' = Append(nodeStack, idx[t])
    /\ pc' = Upd(pc, t, "ret")
    /\ retval' = Upd(retval, t, TRUE)
    /\ UNCHANGED <<cfgVars, poolVars, mFront, mBack, op, arg, head_tmp, next, idx, old, prev, old_back, result>>
    /\ UNCHANGED weakVars
    /\ UNCHANGED <<opsLeft, nHeld, held, popOrder, ticket, sawEmpty, nSteps, acqFails, missed, pre, last, acqSince, popSince, qNodes, built, nAcquired>>

\* LinkTopNodeNonAtomically: new_node->mPrev = mTop.load(); mTop.store(...)
StackLinkNonAtomically(t) ==
    /\ pc[t] = "s_na_link"
    /\ mPrev' = Upd(mPrev, idx[t], mTop)
    /\ mTop' = tNodePtr(idx[t], mTop.tag)
    /\ pushOrder' = Append(pushOrder, arg[t])
    /\ absStack' = Append(absStack, arg[t])
    /\ nodeStack' = Append(nodeStack, idx[t])
    /\ pc' = Upd(pc, t, "ret")
    /\ retval' = Upd(retval, t, TRUE)
    /\ UNCHANGED <<cfgVars, poolVars, mFront, mBack, op, arg, head_tmp, next, idx, old, prev, old_back, result>>
    /\ UNCHANGED weakVars
    /\ UNCHANGED <<opsLeft, nHeld, held, popOrder, ticket, sawEmpty, nSteps, acqFails, missed, pre, last, acqSince, popSince, qNodes, built, nAcquired>>

\* bool Pop(T& result)
StackPop(t) ==
    /\ CanStart(t)
    /\ t \in consumers
    /\ op' = Upd(op, t, "Pop")
    /\ pc' = Upd(pc, t, "s_pop_load")
    /\ opsLeft' = opsLeft - 1
    /\ UNCHANGED <<cfgVars, poolVars, contVars, arg, head_tmp, next, idx, old, prev, old_back, result, retval>>
    /\ UNCHANGED weakVars
    /\ UNCHANGED <<nHeld, held, pushOrder, popOrder, ticket, absStack, nodeStack, sawEmpty, nSteps, acqFails, missed, last, acqSince, popSince, qNodes, built, nAcquired>>

\* bool NonAtomicPop(T& result)
StackNonAtomicPop(t) ==
    /\ CanStart(t)
    /\ serial
    /\ t \in consumers
    /\ op' = Upd(op, t, "NAPop")
    /\ pc' = Upd(pc, t, "s_na_pop")
    /\ opsLeft' = opsLeft - 1
    /\ UNCHANGED <<cfgVars, poolVars, contVars, arg, head_tmp, next, idx, old, prev, old_back, result, retval>>
    /\ UNCHANGED weakVars
    /\ UNCHANGED <<nHeld, held, pushOrder, popOrder, ticket, absStack, nodeStack, sawEmpty, nSteps, acqFails, missed, last, acqSince, popSince, qNodes, built, nAcquired>>

\* where Pop goes with the top it has in old_top: out of the loop when it is null
StackPopLoop(t, top) ==
    /\ old' = Upd(old, t, top)
    /\ pc' = Upd(pc, t, IF top.ptr = nullptr THEN "ret" ELSE "s_pop_prev")
    /\ retval' = Upd(retval, t, FALSE)

\* tNodePtr old_top(mTop.load());
StackPopLoad(t) ==
    /\ pc[t] = "s_pop_load"
    /\ StackPopLoop(t, mTop)
    /\ UNCHANGED <<cfgVars, poolVars, contVars, op, arg, head_tmp, next, idx, prev, old_back, result>>
    /\ UNCHANGED weakVars
    /\ UNCHANGED <<opsLeft, nHeld, held, pushOrder, popOrder, ticket, absStack, nodeStack, sawEmpty, nSteps, acqFails, missed, pre, last, acqSince, qNodes, built, nAcquired>>
    /\ popSince' = Upd(popSince, t, 0)

\* a new top that carries the old top's tag
StackPopNewTopSameTag(old_top) == tNodePtr(mPrev[old_top.ptr].ptr, old_top.tag)

\* a new top that is the old top's node again
StackPopNewTopSameNode(old_top) == tNodePtr(old_top.ptr, (old_top.tag + 1) % TagModulus)

\* tNodePtr new_top(old_top->mPrev.GetPtr(), old_top.GetTag() + 1);
StackPopNewTop(old_top) == tNodePtr(mPrev[old_top.ptr].ptr, (old_top.tag + 1) % TagModulus)

StackPopReadPrev(t) ==
    /\ pc[t] = "s_pop_prev"
    /\ prev' = Upd(prev, t, StackPopNewTop(old[t]))
    /\ pc' = Upd(pc, t, "s_pop_cas")
    /\ UNCHANGED <<cfgVars, poolVars, contVars, op, arg, head_tmp, next, idx, old, old_back, result, retval>>
    /\ UNCHANGED weakVars
    /\ UNCHANGED histVars

\* what a successful Pop records: its place in the order of the Pops, and the
\* value on top of the stack it detaches
TakeTicket(t, want) ==
    /\ popOrder' = Append(popOrder, [want |-> want, got |-> 0])
    /\ ticket' = Upd(ticket, t, Len(popOrder) + 1)

StackTopValue == IF absStack = <<>> THEN 0 ELSE absStack[Len(absStack)]
StackBelowTop == IF absStack = <<>> THEN <<>> ELSE SubSeq(absStack, 1, Len(absStack) - 1)
NodesBelowTop == IF nodeStack = <<>> THEN <<>> ELSE SubSeq(nodeStack, 1, Len(nodeStack) - 1)

\* mTop.compare_exchange_weak(old_top, new_top) succeeds
StackPopCASOk(t) ==
    /\ pc[t] = "s_pop_cas"
    /\ mTop = old[t]
    /\ mTop' = prev[t]
    /\ TakeTicket(t, StackTopValue)
    /\ absStack' = StackBelowTop
    /\ nodeStack' = NodesBelowTop
    /\ pc' = Upd(pc, t, "s_pop_data")
    /\ UNCHANGED <<cfgVars, poolVars, mPrev, mFront, mBack, op, arg, head_tmp, next, idx, old, prev, old_back, result, retval>>
    /\ UNCHANGED weakVars
    /\ UNCHANGED <<opsLeft, nHeld, held, pushOrder, sawEmpty, nSteps, acqFails, missed, pre, last, acqSince, qNodes, built, nAcquired>>
    /\ popSince' = [u \in Threads |-> IF u # t /\ pc[u] \in {"s_pop_prev", "s_pop_cas"}
                                       THEN popSince[u] + 1 ELSE 0]

\* a failed CAS that keeps the new_top computed from the previous old_top
StackPopCASFailNoReload(t) ==
    /\ pc[t] = "s_pop_cas"
    /\ mTop # old[t]
    /\ old' = Upd(old, t, mTop)
    /\ prev' = Upd(prev, t, tNodePtr(prev[t].ptr, (mTop.tag + 1) % TagModulus))
    /\ pc' = Upd(pc, t, IF mTop.ptr = nullptr THEN "ret" ELSE "s_pop_cas")
    /\ UNCHANGED <<cfgVars, poolVars, contVars, op, arg, head_tmp, next, idx, old_back, result, retval>>
    /\ UNCHANGED weakVars
    /\ UNCHANGED histVars

\* the CAS fails: old_top takes the current top and the loop goes round
StackPopCASFail(t) ==
    /\ pc[t] = "s_pop_cas"
    /\ mTop # old[t]
    /\ StackPopLoop(t, mTop)
    /\ prev' = Upd(prev, t, NullNodePtr)
    /\ UNCHANGED <<cfgVars, poolVars, contVars, op, arg, head_tmp, next, idx, old_back, result>>
    /\ UNCHANGED weakVars
    /\ UNCHANGED <<opsLeft, nHeld, held, pushOrder, popOrder, ticket, absStack, nodeStack, sawEmpty, nSteps, acqFails, missed, pre, last, acqSince, qNodes, built, nAcquired>>
    /\ popSince' = Upd(popSince, t, 0)

\* a NonAtomicPop that stores a new top before it tests for an empty stack
StackPopNonAtomicallyUnchecked(t) ==
    /\ pc[t] = "s_na_pop"
    /\ old' = Upd(old, t, mTop)
    /\ IF mTop.ptr = nullptr
         THEN /\ pc' = Upd(pc, t, "ret")
              /\ retval' = Upd(retval, t, FALSE)
              /\ mTop' = tNodePtr(nullptr, (mTop.tag + 1) % TagModulus)
              /\ UNCHANGED <<popOrder, ticket, absStack, nodeStack>>
         ELSE /\ mTop' = StackPopNewTop(mTop)
              /\ TakeTicket(t, StackTopValue)
              /\ absStack' = StackBelowTop
              /\ nodeStack' = NodesBelowTop
              /\ pc' = Upd(pc, t, "s_pop_data")
              /\ UNCHANGED retval
    /\ UNCHANGED <<cfgVars, poolVars, mPrev, mFront, mBack, op, arg, head_tmp, next, idx, prev, old_back, result>>
    /\ UNCHANGED weakVars
    /\ UNCHANGED <<opsLeft, nHeld, held, pushOrder, sawEmpty, nSteps, acqFails, missed, pre, last, acqSince, popSince, qNodes, built, nAcquired>>

\* NonAtomicPop: load mTop, and when it is not null store new_top
StackPopNonAtomically(t) ==
    /\ pc[t] = "s_na_pop"
    /\ old' = Upd(old, t, mTop)
    /\ IF mTop.ptr = nullptr
         THEN /\ pc' = Upd(pc, t, "ret")
              /\ retval' = Upd(retval, t, FALSE)
              /\ UNCHANGED <<mTop, popOrder, ticket, absStack, nodeStack>>
         ELSE /\ mTop' = StackPopNewTop(mTop)
              /\ TakeTicket(t, StackTopValue)
              /\ absStack' = StackBelowTop
              /\ nodeStack' = NodesBelowTop
              /\ pc' = Upd(pc, t, "s_pop_data")
              /\ UNCHANGED retval
    /\ UNCHANGED <<cfgVars, poolVars, mPrev, mFront, mBack, op, arg, head_tmp, next, idx, prev, old_back, result>>
    /\ UNCHANGED weakVars
    /\ UNCHANGED <<opsLeft, nHeld, held, pushOrder, sawEmpty, nSteps, acqFails, missed, pre, last, acqSince, popSince, qNodes, built, nAcquired>>

\* a Pop that releases the node it made the new top
StackPopMoveReleaseNewTop(t) ==
    /\ pc[t] = "s_pop_data"
    /\ result' = Upd(result, t, mStorage[old[t].ptr])
    /\ popOrder' = Upd(popOrder, ticket[t], [popOrder[ticket[t]] EXCEPT !.got = mStorage[old[t].ptr]])
    /\ idx' = Upd(idx, t, IF prev[t].ptr = nullptr THEN old[t].ptr ELSE prev[t].ptr)
    /\ pc' = Upd(pc, t, "rel_load")
    /\ UNCHANGED <<cfgVars, poolVars, contVars, op, arg, head_tmp, next, old, prev, old_back, retval>>
    /\ UNCHANGED weakVars
    /\ UNCHANGED <<opsLeft, nHeld, held, pushOrder, ticket, absStack, nodeStack, sawEmpty, nSteps, acqFails, missed, pre, last, acqSince, popSince, qNodes, built, nAcquired>>

\* result = move(old_top->mData); then mNodePool.Release(*old_top)
StackPopMove(t) ==
    /\ pc[t] = "s_pop_data"
    /\ result' = Upd(result, t, mStorage[old[t].ptr])
    /\ popOrder' = Upd(popOrder, ticket[t], [popOrder[ticket[t]] EXCEPT !.got = mStorage[old[t].ptr]])
    /\ idx' = Upd(idx, t, old[t].ptr)
    /\ pc' = Upd(pc, t, "rel_load")
    /\ UNCHANGED <<cfgVars, poolVars, contVars, op, arg, head_tmp, next, old, prev, old_back, retval>>
    /\ UNCHANGED weakVars
    /\ UNCHANGED <<opsLeft, nHeld, held, pushOrder, ticket, absStack, nodeStack, sawEmpty, nSteps, acqFails, missed, pre, last, acqSince, popSince, qNodes, built, nAcquired>>

\* cLockFreeStack(pool): mTop(tNodePtr(nullptr, 0))
InitStackOf(n) ==
    /\ InitThreads
    /\ InitPoolOf(n)
    /\ kind = "stack"
    /\ producers = Threads
    /\ consumers = Threads
    /\ mTop = tNodePtr(nullptr, 0)
    /\ mFront = NullNodePtr
    /\ mBack = NullNodePtr

\* the values on the stack, from mTop down along mPrev
RECURSIVE StackWalk(_, _)
StackWalk(p, fuel) ==
    IF p = nullptr \/ fuel = 0 THEN <<>>
    ELSE <<mStorage[p]>> \o StackWalk(mPrev[p].ptr, fuel - 1)

StackContents == StackWalk(mTop.ptr, mCapacity + 1)

Quiescent == \A t \in Threads : pc[t] = "idle"

\* ---------------------------------------------- specification: the stack
InitStack ==
    /\ InitStackOf(StackCapacity)
    /\ serial = FALSE
    /\ opsLeft = StackOps

NextStack ==
    \E t \in Threads :
        \/ StackPush(t)
        \/ StackPop(t)
        \/ StackConstruct(t)
        \/ StackLinkLoad(t)
        \/ StackPushCASOk(t)
        \/ StackPushCASFail(t)
        \/ StackPopLoad(t)
        \/ StackPopReadPrev(t)
        \/ StackPopCASOk(t)
        \/ StackPopCASFail(t)
        \/ StackPopMove(t)
        \/ PoolStep(t)

SpecStack == InitStack /\ [][NextStack]_vars

\* C2: when every Push and Pop has returned, the values popped together with
\* the values still on the stack are exactly the values pushed, each once.
C2_StackConservation ==
    Quiescent =>
        BagOfSeq(Got(popOrder)) (+) BagOfSeq(StackContents) = BagOfSeq(pushOrder)

\* a quiescent state after a Push and a Pop each lost a CAS to the other thread,
\* with a value popped and a value left on the stack
C2_Witness ==
    /\ Quiescent
    /\ Len(popOrder) >= 2
    /\ StackContents # <<>>
    /\ mHead.mTag > mCapacity

\* ------------------------------- specification: the stack, one call at a time
\* every operation runs from its call to its return with no other in between,
\* whichever thread makes it; the NonAtomic variants are allowed
InitStackSerial ==
    /\ InitStackOf(StackCapacity)
    /\ serial = TRUE
    /\ opsLeft = StackOps

NextStackSerial ==
    \E t \in Threads :
        \/ StackPush(t)
        \/ StackNonAtomicPush(t)
        \/ StackPop(t)
        \/ StackNonAtomicPop(t)
        \/ StackConstruct(t)
        \/ StackLinkLoad(t)
        \/ StackPushCASOk(t)
        \/ StackLinkNonAtomically(t)
        \/ StackPopLoad(t)
        \/ StackPopReadPrev(t)
        \/ StackPopCASOk(t)
        \/ StackPopNonAtomically(t)
        \/ StackPopMove(t)
        \/ PoolStraight(t)

SpecStackSerial == InitStackSerial /\ [][NextStackSerial]_vars

\* C7: without concurrent interference every successful Pop or NonAtomicPop
\* returns the value of the most recently pushed element not yet popped.
C7_StackLIFO ==
    \A k \in DOMAIN popOrder :
        /\ popOrder[k].want # 0
        /\ popOrder[k].got # 0 => popOrder[k].got = popOrder[k].want

\* Push(a); Push(b) were followed by a pop yielding b and a NonAtomicPop
\* that has just yielded a
C7_Witness ==
    /\ Len(pushOrder) = 2
    /\ Len(popOrder) = 2
    /\ popOrder[1].got = pushOrder[2]
    /\ popOrder[2].got = pushOrder[1]
    /\ \E t \in Threads : op[t] = "NAPop" /\ pc[t] = "rel_load"

\* ------------------------------------------------------------- MPMC queue
\* Empty(): !mFront.load()->mPrev.load()
Empty == mPrev[mFront.ptr].ptr = nullptr

\* every Pop in progress notes the moments at which Empty() would return true
TrackEmpty ==
    sawEmpty' = [u \in Threads |->
                    IF op'[u] = "QPop" /\ pc'[u] # "idle"
                      THEN sawEmpty[u] \/ mPrev'[mFront'.ptr].ptr = nullptr
                      ELSE FALSE]

\* a producer suspended between its exchange on mBack and its store to mPrev
Stalled(t) == op[t] \in {"QPush", "MPush"} /\ pc[t] \in {"q_setdata", "q_store", "m_store"}

\* the values whose Push has returned true and that no Pop has detached yet
PushedNotPopped ==
    {pushOrder[j] : j \in {i \in DOMAIN pushOrder :
        i > Len(popOrder) /\ \A t \in Threads : ~(Stalled(t) /\ ticket[t] = i)}}

\* bool Push(args...): LinkBackNodeAtomically, whose first call is AcquireNewNode()
QueuePush(t) ==
    /\ CanStart(t)
    /\ kind = "queue"
    /\ t \in producers
    /\ op' = Upd(op, t, "QPush")
    /\ arg' = Upd(arg, t, FreshValue)
    /\ pc' = Upd(pc, t, "acq_load")
    /\ opsLeft' = opsLeft - 1
    /\ UNCHANGED <<cfgVars, poolVars, contVars, head_tmp, next, idx, old, prev, old_back, result, retval>>
    /\ UNCHANGED weakVars
    /\ UNCHANGED <<nHeld, held, pushOrder, popOrder, ticket, absStack, nodeStack, sawEmpty, nSteps, acqFails, missed, last, acqSince, popSince, qNodes, built, nAcquired>>

\* an AcquireNewNode that leaves the mPrev the slot held before
QueueConstructKeepPrev(t) ==
    /\ pc[t] = "q_ctor"
    /\ pc' = Upd(pc, t, "q_xchg")
    /\ Tick(t)
    /\ UNCHANGED <<cfgVars, poolVars, mPrev, mTop, mFront, mBack, op, arg, head_tmp, next, idx, old, prev, old_back, result, retval>>
    /\ UNCHANGED weakVars
    /\ UNCHANGED <<opsLeft, nHeld, held, pushOrder, popOrder, ticket, absStack, nodeStack, acqFails, missed, pre, last, acqSince, popSince, qNodes, built, nAcquired>>
    /\ TrackEmpty

\* AcquireNewNode: new (new_mem) tElement(), which sets mPrev(nullptr) only
QueueConstruct(t) ==
    /\ pc[t] = "q_ctor"
    /\ mPrev' = Upd(mPrev, idx[t], NullNodePtr)
    /\ pc' = Upd(pc, t, "q_xchg")
    /\ Tick(t)
    /\ UNCHANGED <<cfgVars, poolVars, mTop, mFront, mBack, op, arg, head_tmp, next, idx, old, prev, old_back, result, retval>>
    /\ UNCHANGED weakVars
    /\ UNCHANGED <<opsLeft, nHeld, held, pushOrder, popOrder, ticket, absStack, nodeStack, acqFails, missed, pre, last, acqSince, popSince, qNodes, built, nAcquired>>
    /\ TrackEmpty

\* an exchange on mBack that links the old back node in the same step
QueueExchangeAndLink(t) ==
    /\ pc[t] = "q_xchg"
    /\ old_back' = Upd(old_back, t, mBack)
    /\ mBack' = tNodePtr(idx[t], 0)
    /\ mPrev' = Upd(mPrev, mBack.ptr, tNodePtr(idx[t], 0))
    /\ pushOrder' = Append(pushOrder, arg[t])
    /\ ticket' = Upd(ticket, t, Len(pushOrder) + 1)
    /\ pc' = Upd(pc, t, "q_setdata")
    /\ Tick(t)
    /\ UNCHANGED <<cfgVars, poolVars, mTop, mFront, op, arg, head_tmp, next, idx, old, prev, result, retval>>
    /\ UNCHANGED weakVars
    /\ UNCHANGED <<opsLeft, nHeld, held, popOrder, absStack, nodeStack, sawEmpty, acqFails, missed, pre, last, acqSince, popSince, built, nAcquired>>
    /\ qNodes' = Append(qNodes, idx[t])

\* 1. tNodePtr old_back = mBack.exchange(new_back);
QueueExchange(t) ==
    /\ pc[t] = "q_xchg"
    /\ old_back' = Upd(old_back, t, mBack)
    /\ mBack' = tNodePtr(idx[t], 0)
    /\ pushOrder' = Append(pushOrder, arg[t])
    /\ ticket' = Upd(ticket, t, Len(pushOrder) + 1)
    /\ pc' = Upd(pc, t, "q_setdata")
    /\ Tick(t)
    /\ UNCHANGED <<cfgVars, poolVars, mPrev, mTop, mFront, op, arg, head_tmp, next, idx, old, prev, result, retval>>
    /\ UNCHANGED weakVars
    /\ UNCHANGED <<opsLeft, nHeld, held, popOrder, absStack, nodeStack, sawEmpty, acqFails, missed, pre, last, acqSince, popSince, built, nAcquired>>
    /\ qNodes' = Append(qNodes, idx[t])

\* the node the pushed object is constructed in
QueueDataNode(t) == old_back[t].ptr

\* 2. old_back->SetData(args...);
QueueSetData(t) ==
    /\ pc[t] = "q_setdata"
    /\ mStorage' = Upd(mStorage, QueueDataNode(t), arg[t])
    /\ pc' = Upd(pc, t, "q_store")
    /\ Tick(t)
    /\ UNCHANGED <<cfgVars, mHead, contVars, op, arg, head_tmp, next, idx, old, prev, old_back, result, retval>>
    /\ UNCHANGED weakVars
    /\ UNCHANGED <<opsLeft, nHeld, held, pushOrder, popOrder, ticket, absStack, nodeStack, sawEmpty, acqFails, missed, pre, last, acqSince, popSince, qNodes, nAcquired>>
    /\ built' = built \cup {QueueDataNode(t)}

\* a Push that returns without the store to old_back->mPrev
QueueStorePrevDropped(t) ==
    /\ pc[t] = "q_store"
    /\ pc' = Upd(pc, t, "ret")
    /\ retval' = Upd(retval, t, TRUE)
    /\ Tick(t)
    /\ UNCHANGED <<cfgVars, poolVars, contVars, op, arg, head_tmp, next, idx, old, prev, old_back, result>>
    /\ UNCHANGED weakVars
    /\ UNCHANGED <<opsLeft, nHeld, held, pushOrder, popOrder, ticket, absStack, nodeStack, acqFails, missed, pre, last, acqSince, popSince, qNodes, built, nAcquired>>
    /\ TrackEmpty

\* 3. old_back->mPrev.store(new_back); return true;
QueueStorePrev(t) ==
    /\ pc[t] = "q_store"
    /\ mPrev' = Upd(mPrev, old_back[t].ptr, tNodePtr(idx[t], 0))
    /\ pc' = Upd(pc, t, "ret")
    /\ retval' = Upd(retval, t, TRUE)
    /\ Tick(t)
    /\ UNCHANGED <<cfgVars, poolVars, mTop, mFront, mBack, op, arg, head_tmp, next, idx, old, prev, old_back, result>>
    /\ UNCHANGED weakVars
    /\ UNCHANGED <<opsLeft, nHeld, held, pushOrder, popOrder, ticket, absStack, nodeStack, acqFails, missed, pre, last, acqSince, popSince, qNodes, built, nAcquired>>
    /\ TrackEmpty

\* a call of Pop that takes cost of the operations the model may still start
QueuePopCall(t, cost) ==
    /\ pc[t] = "idle"
    /\ opsLeft >= cost
    /\ serial => \A u \in Threads : pc[u] = "idle"
    /\ TakeSnapshot
    /\ kind = "queue"
    /\ t \in consumers
    /\ op' = Upd(op, t, "QPop")
    /\ pc' = Upd(pc, t, "q_pop_load")
    /\ opsLeft' = opsLeft - cost
    /\ UNCHANGED <<cfgVars, poolVars, contVars, arg, head_tmp, next, idx, old, prev, old_back, result, retval>>
    /\ UNCHANGED weakVars
    /\ UNCHANGED <<nHeld, held, pushOrder, popOrder, ticket, absStack, nodeStack, nSteps, acqFails, missed, last, acqSince, popSince, qNodes, built, nAcquired>>
    /\ TrackEmpty

\* bool Pop(T& result)
QueuePop(t) == QueuePopCall(t, 1)

\* tNodePtr old_front(mFront.load());
QueuePopLoad(t) ==
    /\ pc[t] = "q_pop_load"
    /\ old' = Upd(old, t, mFront)
    /\ pc' = Upd(pc, t, "q_pop_prev")
    /\ UNCHANGED <<cfgVars, poolVars, contVars, op, arg, head_tmp, next, idx, prev, old_back, result, retval>>
    /\ UNCHANGED weakVars
    /\ UNCHANGED <<opsLeft, nHeld, held, pushOrder, popOrder, ticket, absStack, nodeStack, sawEmpty, nSteps, acqFails, missed, pre, last, acqSince, qNodes, built, nAcquired>>
    /\ popSince' = Upd(popSince, t, 0)

\* old_front_prev = old_front->mPrev.load(); and the test of while (old_front_prev)
QueuePopReadPrev(t) ==
    /\ pc[t] = "q_pop_prev"
    /\ prev' = Upd(prev, t, mPrev[old[t].ptr])
    /\ pc' = Upd(pc, t, IF mPrev[old[t].ptr].ptr = nullptr THEN "ret" ELSE "q_pop_cas")
    /\ retval' = Upd(retval, t, FALSE)
    /\ missed' = IF mPrev[old[t].ptr].ptr = nullptr THEN missed \cup PushedNotPopped ELSE missed
    /\ UNCHANGED <<cfgVars, poolVars, contVars, op, arg, head_tmp, next, idx, old, old_back, result>>
    /\ UNCHANGED weakVars
    /\ UNCHANGED <<opsLeft, nHeld, held, pushOrder, popOrder, ticket, absStack, nodeStack, sawEmpty, nSteps, acqFails, pre, last, acqSince, qNodes, built, nAcquired>>
    /\ popSince' = IF mPrev[old[t].ptr].ptr = nullptr THEN Upd(popSince, t, 0) ELSE popSince

\* the value the Pop that takes effect now is due: the oldest not yet popped
QueueFrontValue ==
    IF Len(popOrder) < Len(pushOrder) THEN pushOrder[Len(popOrder) + 1] ELSE 0

\* tNodePtr new_front(old_front_prev.GetPtr(), old_front.GetTag() + 1); the CAS succeeds
QueuePopCASOk(t) ==
    /\ pc[t] = "q_pop_cas"
    /\ mFront = old[t]
    /\ mFront' = tNodePtr(prev[t].ptr, (old[t].tag + 1) % TagModulus)
    /\ TakeTicket(t, QueueFrontValue)
    /\ pc' = Upd(pc, t, "q_pop_data")
    /\ UNCHANGED <<cfgVars, poolVars, mPrev, mTop, mBack, op, arg, head_tmp, next, idx, old, prev, old_back, result, retval>>
    /\ UNCHANGED weakVars
    /\ UNCHANGED <<opsLeft, nHeld, held, pushOrder, absStack, nodeStack, nSteps, acqFails, missed, pre, last, acqSince, built, nAcquired>>
    /\ popSince' = [u \in Threads |-> IF u # t /\ pc[u] \in {"q_pop_prev", "q_pop_cas"}
                                       THEN popSince[u] + 1 ELSE 0]
    /\ TrackEmpty
    /\ qNodes' = IF qNodes = <<>> THEN <<>> ELSE Tail(qNodes)

\* a failed CAS that keeps the old_front_prev read from the previous old_front
QueuePopCASFailNoReload(t) ==
    /\ pc[t] = "q_pop_cas"
    /\ mFront # old[t]
    /\ old' = Upd(old, t, mFront)
    /\ UNCHANGED <<cfgVars, poolVars, contVars, pc, op, arg, head_tmp, next, idx, prev, old_back, result, retval>>
    /\ UNCHANGED weakVars
    /\ UNCHANGED histVars

\* the CAS fails: old_front takes the current front; else-branch reloads its mPrev
QueuePopCASFail(t) ==
    /\ pc[t] = "q_pop_cas"
    /\ mFront # old[t]
    /\ old' = Upd(old, t, mFront)
    /\ prev' = Upd(prev, t, NullNodePtr)
    /\ pc' = Upd(pc, t, "q_pop_prev")
    /\ UNCHANGED <<cfgVars, poolVars, contVars, op, arg, head_tmp, next, idx, old_back, result, retval>>
    /\ UNCHANGED weakVars
    /\ UNCHANGED <<opsLeft, nHeld, held, pushOrder, popOrder, ticket, absStack, nodeStack, sawEmpty, nSteps, acqFails, missed, pre, last, acqSince, qNodes, built, nAcquired>>
    /\ popSince' = Upd(popSince, t, 0)

\* the node a successful Pop moves its result out of
QueuePopSourceNew(t) == prev[t].ptr

QueuePopSource(t) == old[t].ptr

\* a Pop that returns the value and keeps the node it detached
QueuePopMoveNoRelease(t) ==
    /\ pc[t] = "q_pop_data"
    /\ result' = Upd(result, t, mStorage[QueuePopSource(t)])
    /\ popOrder' = Upd(popOrder, ticket[t], [popOrder[ticket[t]] EXCEPT !.got = mStorage[QueuePopSource(t)]])
    /\ retval' = Upd(retval, t, TRUE)
    /\ pc' = Upd(pc, t, "ret")
    /\ UNCHANGED <<cfgVars, poolVars, contVars, op, arg, head_tmp, next, idx, old, prev, old_back>>
    /\ UNCHANGED weakVars
    /\ UNCHANGED <<opsLeft, nHeld, held, pushOrder, ticket, absStack, nodeStack, sawEmpty, nSteps, acqFails, missed, pre, last, acqSince, popSince, qNodes, nAcquired>>
    /\ built' = built \ {old[t].ptr}

\* result = move(old_front->GetData()); then mNodePool.Release(*old_front)
QueuePopMove(t) ==
    /\ pc[t] = "q_pop_data"
    /\ result' = Upd(result, t, mStorage[QueuePopSource(t)])
    /\ popOrder' = Upd(popOrder, ticket[t], [popOrder[ticket[t]] EXCEPT !.got = mStorage[QueuePopSource(t)]])
    /\ idx' = Upd(idx, t, old[t].ptr)
    /\ pc' = Upd(pc, t, "rel_load")
    /\ UNCHANGED <<cfgVars, poolVars, contVars, op, arg, head_tmp, next, old, prev, old_back, retval>>
    /\ UNCHANGED weakVars
    /\ UNCHANGED <<opsLeft, nHeld, held, pushOrder, ticket, absStack, nodeStack, sawEmpty, nSteps, acqFails, missed, pre, last, acqSince, popSince, qNodes, nAcquired>>
    /\ built' = built \ {old[t].ptr}

QueueStep(t) ==
    \/ QueueConstruct(t)
    \/ QueueExchange(t)
    \/ QueueSetData(t)
    \/ QueueStorePrev(t)
    \/ QueuePopLoad(t)
    \/ QueuePopReadPrev(t)
    \/ QueuePopCASOk(t)
    \/ QueuePopCASFail(t)
    \/ QueuePopMove(t)

\* the slot the constructor's AcquireNewNode() gets from the fresh pool
FirstSlot(n) == ReleaseAllPtrsHead(AllocateStorage(n)).mIdx

\* the pool once the constructor has acquired its sentinel
InitPoolWithSentinel(n) ==
    /\ requested = n
    /\ mCapacity = AllocateStorage(n)
    /\ mHead = AcquireNewHead(ReleaseAllPtrsNext(AllocateStorage(n))[FirstSlot(n)],
                              ReleaseAllPtrsHead(AllocateStorage(n)))
    /\ nHeld = [i \in 0..(AllocateStorage(n) - 1) |-> IF i = FirstSlot(n) THEN 1 ELSE 0]
    /\ qNodes = <<FirstSlot(n)>>
    /\ nAcquired = 1
    /\ mPrev = [i \in 0..(AllocateStorage(n) - 1) |-> NullNodePtr]

\* cLockFreeQueue(pool): dummy_node = AcquireNewNode(); mFront and mBack point to it
InitQueueOf(n) ==
    /\ InitThreads
    /\ InitPoolWithSentinel(n)
    /\ mStorage = ReleaseAllPtrsNext(AllocateStorage(n))
    /\ kind = "queue"
    /\ mFront = tNodePtr(FirstSlot(n), 0)
    /\ mBack = tNodePtr(FirstSlot(n), 0)
    /\ mTop = NullNodePtr

\* the values in the queue, from mFront along mPrev up to the sentinel
RECURSIVE QueueWalk(_, _)
QueueWalk(p, fuel) ==
    IF mPrev[p].ptr = nullptr \/ fuel = 0 THEN <<>>
    ELSE <<mStorage[p]>> \o QueueWalk(mPrev[p].ptr, fuel - 1)

QueueContents == QueueWalk(mFront.ptr, mCapacity + 1)

\* ----------------------------------------- specification: the MPMC queue
\* cLockFreeQueue<T, QueueSize>: the local pool has QueueSize + 1 slots
InitQueue ==
    /\ InitQueueOf(QueueSize + 1)
    /\ serial = FALSE
    /\ producers = Threads
    /\ consumers = Threads
    /\ opsLeft = QueueOps

NextQueue ==
    \E t \in Threads :
        \/ QueuePush(t)
        \/ QueuePop(t)
        \/ QueueStep(t)
        \/ PoolStep(t)

SpecQueue == InitQueue /\ [][NextQueue]_vars

\* C3: when every Push and Pop on the MPMC queue has returned, the values
\* popped together with the values still in the queue are exactly the values
\* pushed, each once.
C3_QueueConservation ==
    Quiescent =>
        BagOfSeq(Got(popOrder)) (+) BagOfSeq(QueueContents) = BagOfSeq(pushOrder)

\* a quiescent state with values popped by Pops that raced, a value left in
\* the queue and a slot that went round through the pool
C3_Witness ==
    /\ Quiescent
    /\ Len(popOrder) >= 2
    /\ QueueContents # <<>>
    /\ mHead.mTag > mCapacity

\* C4: a Pop of the MPMC queue that returns false found the queue empty at
\* some moment between its invocation and its return (Empty() would have
\* returned true then: no finished Push had an element at the front).
C4_PopFalseOnlyWhenEmpty ==
    \A t \in Threads :
        (pc[t] = "ret" /\ op[t] = "QPop" /\ ~retval[t]) => sawEmpty[t]

\* C6: the MPMC queue dequeues in the order of the exchanges on mBack: the
\* k-th Pop to take effect returns the value of the k-th exchange, so two
\* values of one producer are never popped in the opposite order.
C6_FifoExchangeOrder ==
    \A k \in DOMAIN popOrder :
        /\ k <= Len(pushOrder)
        /\ popOrder[k].got # 0 => popOrder[k].got = pushOrder[k]

\* two Pops have returned values whose Pushes exchanged in the opposite order
\* of their invocations, with two producers at work
C6_Witness ==
    /\ Len(popOrder) >= 2
    /\ popOrder[1].got # 0
    /\ popOrder[2].got # 0
    /\ pushOrder[1] < pushOrder[2]

\* C8: while a producer is suspended between its exchange on mBack and its
\* store to the old back node's mPrev, that node's mPrev stays null, no Pop
\* has the stalled element or one enqueued after it, and once the elements
\* enqueued before it are exhausted the stalled node is the front and Pop
\* finds the queue empty.
C8_ProducerStall ==
    \A t \in Threads :
        Stalled(t) =>
            /\ mPrev[old_back[t].ptr].ptr = nullptr
            /\ \A k \in DOMAIN popOrder :
                   \A j \in ticket[t]..Len(pushOrder) :
                       k < ticket[t] /\ popOrder[k].got # pushOrder[j]
            /\ Len(popOrder) = ticket[t] - 1 =>
                   mFront.ptr = old_back[t].ptr /\ Empty

\* a producer is stalled, another producer's later Push has returned, the
\* element before the stalled one is popped and a Pop has returned false
C8_Witness ==
    \E t, u \in Threads :
        /\ Stalled(t)
        /\ ticket[t] < Len(pushOrder)
        /\ Len(popOrder) = ticket[t] - 1
        /\ Len(popOrder) >= 1
        /\ op[u] = "QPop" /\ pc[u] = "ret" /\ ~retval[u]

\* ------------------------------------------------------------- MPSC queue
\* bool Push(args...): LinkBackNodeAtomically, whose first call is AcquireNewNode(args...)
MPSCPush(t) ==
    /\ CanStart(t)
    /\ kind = "mpsc"
    /\ t \in producers
    /\ op' = Upd(op, t, "MPush")
    /\ arg' = Upd(arg, t, FreshValue)
    /\ pc' = Upd(pc, t, "acq_load")
    /\ opsLeft' = opsLeft - 1
    /\ UNCHANGED <<cfgVars, poolVars, contVars, head_tmp, next, idx, old, prev, old_back, result, retval>>
    /\ UNCHANGED weakVars
    /\ UNCHANGED <<nHeld, held, pushOrder, popOrder, ticket, absStack, nodeStack, sawEmpty, nSteps, acqFails, missed, last, acqSince, popSince, qNodes, built, nAcquired>>

\* mNodePool.Acquire(args...): tMPSCLockFreeQueueNode(args...) : mPrev(nullptr), mData(args...)
MPSCConstruct(t) ==
    /\ pc[t] = "m_ctor"
    /\ mStorage' = Upd(mStorage, idx[t], arg[t])
    /\ mPrev' = Upd(mPrev, idx[t], NullNodePtr)
    /\ pc' = Upd(pc, t, "m_xchg")
    /\ Tick(t)
    /\ UNCHANGED <<cfgVars, mHead, mTop, mFront, mBack, op, arg, head_tmp, next, idx, old, prev, old_back, result, retval>>
    /\ UNCHANGED weakVars
    /\ UNCHANGED <<opsLeft, nHeld, held, pushOrder, popOrder, ticket, absStack, nodeStack, sawEmpty, acqFails, missed, pre, last, acqSince, popSince, qNodes, built, nAcquired>>

\* a producer that reads mBack and leaves it as it is
MPSCExchangeKeepBack(t) ==
    /\ pc[t] = "m_xchg"
    /\ old_back' = Upd(old_back, t, mBack)
    /\ mBack' = mBack
    /\ pushOrder' = Append(pushOrder, arg[t])
    /\ ticket' = Upd(ticket, t, Len(pushOrder) + 1)
    /\ pc' = Upd(pc, t, "m_store")
    /\ Tick(t)
    /\ UNCHANGED <<cfgVars, poolVars, mPrev, mTop, mFront, op, arg, head_tmp, next, idx, old, prev, result, retval>>
    /\ UNCHANGED weakVars
    /\ UNCHANGED <<opsLeft, nHeld, held, popOrder, absStack, nodeStack, sawEmpty, acqFails, missed, pre, last, acqSince, popSince, qNodes, built, nAcquired>>

\* tElement* const old_back = mBack.exchange(new_node);
MPSCExchange(t) ==
    /\ pc[t] = "m_xchg"
    /\ old_back' = Upd(old_back, t, mBack)
    /\ mBack' = tNodePtr(idx[t], 0)
    /\ pushOrder' = Append(pushOrder, arg[t])
    /\ ticket' = Upd(ticket, t, Len(pushOrder) + 1)
    /\ pc' = Upd(pc, t, "m_store")
    /\ Tick(t)
    /\ UNCHANGED <<cfgVars, poolVars, mPrev, mTop, mFront, op, arg, head_tmp, next, idx, old, prev, result, retval>>
    /\ UNCHANGED weakVars
    /\ UNCHANGED <<opsLeft, nHeld, held, popOrder, absStack, nodeStack, sawEmpty, acqFails, missed, pre, last, acqSince, popSince, qNodes, built, nAcquired>>

\* old_back->mPrev.store(new_node); return true;
MPSCStorePrev(t) ==
    /\ pc[t] = "m_store"
    /\ mPrev' = Upd(mPrev, old_back[t].ptr, tNodePtr(idx[t], 0))
    /\ pc' = Upd(pc, t, "ret")
    /\ retval' = Upd(retval, t, TRUE)
    /\ Tick(t)
    /\ UNCHANGED <<cfgVars, poolVars, mTop, mFront, mBack, op, arg, head_tmp, next, idx, old, prev, old_back, result>>
    /\ UNCHANGED weakVars
    /\ UNCHANGED <<opsLeft, nHeld, held, pushOrder, popOrder, ticket, absStack, nodeStack, sawEmpty, acqFails, missed, pre, last, acqSince, popSince, qNodes, built, nAcquired>>

\* bool Pop(T& result), called by the one consumer
MPSCPop(t) ==
    /\ CanStart(t)
    /\ kind = "mpsc"
    /\ t \in consumers
    /\ op' = Upd(op, t, "MPop")
    /\ pc' = Upd(pc, t, "m_pop_load")
    /\ opsLeft' = opsLeft - 1
    /\ UNCHANGED <<cfgVars, poolVars, contVars, arg, head_tmp, next, idx, old, prev, old_back, result, retval>>
    /\ UNCHANGED weakVars
    /\ UNCHANGED <<nHeld, held, pushOrder, popOrder, ticket, absStack, nodeStack, sawEmpty, nSteps, acqFails, missed, last, acqSince, popSince, qNodes, built, nAcquired>>

\* old_front = mFront; node_to_pop = old_front->mPrev.load(); if (node_to_pop) ... return false;
MPSCPopLoad(t) ==
    /\ pc[t] = "m_pop_load"
    /\ old' = Upd(old, t, mFront)
    /\ prev' = Upd(prev, t, mPrev[mFront.ptr])
    /\ pc' = Upd(pc, t, IF mPrev[mFront.ptr].ptr = nullptr THEN "ret" ELSE "m_pop_move")
    /\ retval' = Upd(retval, t, FALSE)
    /\ UNCHANGED <<cfgVars, poolVars, contVars, op, arg, head_tmp, next, idx, old_back, result>>
    /\ UNCHANGED weakVars
    /\ UNCHANGED histVars

\* a Pop that takes the data of the node it releases
MPSCPopSourceOld(t) == old[t].ptr

\* the node a successful Pop moves its result out of: node_to_pop->GetData()
MPSCPopSource(t) == prev[t].ptr

\* mFront = node_to_pop; result = move(node_to_pop->GetData()); then Release(*old_front)
MPSCPopMove(t) ==
    /\ pc[t] = "m_pop_move"
    /\ mFront' = prev[t]
    /\ result' = Upd(result, t, mStorage[MPSCPopSource(t)])
    /\ popOrder' = Append(popOrder, [want |-> QueueFrontValue, got |-> mStorage[MPSCPopSource(t)]])
    /\ ticket' = Upd(ticket, t, Len(popOrder) + 1)
    /\ idx' = Upd(idx, t, old[t].ptr)
    /\ pc' = Upd(pc, t, "rel_load")
    /\ UNCHANGED <<cfgVars, poolVars, mPrev, mTop, mBack, op, arg, head_tmp, next, old, prev, old_back, retval>>
    /\ UNCHANGED weakVars
    /\ UNCHANGED <<opsLeft, nHeld, held, pushOrder, absStack, nodeStack, sawEmpty, nSteps, acqFails, missed, pre, last, acqSince, popSince, qNodes, built, nAcquired>>

MPSCStep(t) ==
    \/ MPSCConstruct(t)
    \/ MPSCExchange(t)
    \/ MPSCStorePrev(t)
    \/ MPSCPopLoad(t)
    \/ MPSCPopMove(t)

\* cMPSCLockFreeQueue(pool): sentinel_node = AcquireNewNode(), a node holding T();
\* its plain pointers are tagged pointers whose tag stays 0
InitMPSCMemory(n) ==
    /\ InitPoolWithSentinel(n)
    /\ mStorage = [ReleaseAllPtrsNext(AllocateStorage(n)) EXCEPT ![FirstSlot(n)] = 0]
    /\ kind = "mpsc"
    /\ mFront = tNodePtr(FirstSlot(n), 0)
    /\ mBack = tNodePtr(FirstSlot(n), 0)
    /\ mTop = NullNodePtr

InitMPSCOf(n) ==
    /\ InitThreads
    /\ InitMPSCMemory(n)

\* the values in the MPSC queue: the data of the nodes after mFront, up to mBack
RECURSIVE MPSCWalk(_, _)
MPSCWalk(p, fuel) ==
    IF mPrev[p].ptr = nullptr \/ fuel = 0 THEN <<>>
    ELSE <<mStorage[mPrev[p].ptr]>> \o MPSCWalk(mPrev[p].ptr, fuel - 1)

MPSCContents == MPSCWalk(mFront.ptr, mCapacity + 1)

\* -------------------------- specification: a queue of either class, one producer
\* thread 1 makes every Push; every thread pops the MPMC queue, thread
\* NumThreads alone pops the MPSC queue
InitFifo ==
    /\ \/ InitQueueOf(QueueSize + 1)
       \/ InitMPSCOf(QueueSize + 1)
    /\ serial = FALSE
    /\ producers = {1}
    /\ consumers = IF kind = "mpsc" THEN {NumThreads} ELSE Threads
    /\ opsLeft = FifoOps

NextFifo ==
    \E t \in Threads :
        \/ QueuePush(t)
        \/ QueuePop(t)
        \/ QueueStep(t)
        \/ MPSCPush(t)
        \/ MPSCPop(t)
        \/ MPSCStep(t)
        \/ PoolStep(t)

SpecFifo == InitFifo /\ [][NextFifo]_vars

\* C5: when one thread makes every Push on a cLockFreeQueue or a
\* cMPSCLockFreeQueue, the values are enqueued in the order of its calls and
\* the values of the successful Pops, in the order the Pops take effect, are
\* a prefix of that sequence.
C5_FifoSingleProducer ==
    /\ \A i, j \in DOMAIN pushOrder : i < j => pushOrder[i] > pushOrder[j]
    /\ Len(popOrder) <= Len(pushOrder)
    /\ \A k \in DOMAIN popOrder :
           popOrder[k].got = 0 \/ popOrder[k].got = pushOrder[k]

\* two values came out of the MPSC queue in the order pushed, the first slot
\* is in use again and a third value waits in the queue
C5_Witness ==
    /\ kind = "mpsc"
    /\ Len(popOrder) = 2
    /\ Len(pushOrder) = 3
    /\ MPSCContents = <<pushOrder[3]>>
    /\ \A t \in Threads : pc[t] = "idle"

\* the labels of the code a Push goes through when no CAS of AcquireIdx fails
PushPath(o) ==
    IF o = "QPush"
      THEN {"acq_load", "acq_next", "acq_cas", "q_ctor", "q_xchg", "q_setdata", "q_store"}
      ELSE {"acq_load", "acq_next", "acq_cas", "m_ctor", "m_xchg", "m_store"}

\* C10: a Push on a queue completes within a number of its own steps that
\* does not depend on the other threads: the steps of the path through
\* AcquireIdx, the exchange and the store, with room for a retry of AcquireIdx
\* for all but one of the other operations the run can hold.
C10_PushWaitFree ==
    \A t \in Threads :
        op[t] \in {"QPush", "MPush"} =>
            nSteps[t] <= Cardinality(PushPath(op[t])) + 2 * (QueueOps - 2)

\* ------------- specification: the MPMC queue with a consumer that keeps popping
\* a Pop the consumer may call at any time: consumers keep calling Pop
KeepPopping(t) == QueuePopCall(t, 0)

\* both threads push; thread NumThreads is the consumer, and only Pushes count
\* against the operations the run can hold
InitQueueLive ==
    /\ InitQueueOf(QueueSize + 1)
    /\ serial = FALSE
    /\ producers = Threads
    /\ consumers = {NumThreads}
    /\ opsLeft = LivePushes

\* whatever a thread may do next; one consumer alone never fails its CAS on mFront
LiveStep(t) ==
    \/ QueuePush(t)
    \/ KeepPopping(t)
    \/ QueueConstruct(t)
    \/ QueueExchange(t)
    \/ QueueSetData(t)
    \/ QueueStorePrev(t)
    \/ QueuePopLoad(t)
    \/ QueuePopReadPrev(t)
    \/ QueuePopCASOk(t)
    \/ QueuePopMove(t)
    \/ PoolStep(t)

NextQueueLive == \E t \in Threads : LiveStep(t)

\* the scheduler keeps running the consumer threads; a producer may be
\* suspended for ever at any step
ConsumersFair == \A t \in 1..NumThreads : WF_vars(t \in consumers /\ LiveStep(t))

SpecQueueLive == InitQueueLive /\ [][NextQueueLive]_vars /\ ConsumersFair

\* C9: whenever no producer is suspended between its exchange on mBack and
\* its store to mPrev, every value whose Push has taken effect (so its Push
\* has returned true) is eventually returned by a Pop, given weak fairness of
\* the consumers.
C9_StallRecovery ==
    \A v \in 1..LivePushes :
        ((\E i \in DOMAIN pushOrder : pushOrder[i] = v) /\ \A t \in Threads : ~Stalled(t))
            ~> (\E k \in DOMAIN popOrder : popOrder[k].got = v)

\* a Pop has returned a value that an earlier Pop had missed: its Push had
\* returned, but it was behind the node of a suspended producer
C9_Witness ==
    \E k \in DOMAIN popOrder :
        /\ popOrder[k].got \in missed
        /\ k > 1

\* ------------- specification: pool, stack or MPMC queue, threads that keep running
InitLockFree ==
    /\ \/ InitPoolOf(PoolCapacity) /\ kind = "pool" /\ InitThreads
          /\ mTop = NullNodePtr /\ mFront = NullNodePtr /\ mBack = NullNodePtr
       \/ InitStackOf(StackCapacity)
       \/ InitQueueOf(QueueSize + 1)
    /\ serial = FALSE
    /\ producers = IF kind = "pool" THEN {} ELSE Threads
    /\ consumers = IF kind = "pool" THEN {} ELSE Threads
    /\ opsLeft = LockFreeOps

NextLockFree ==
    \/ kind = "pool" /\ NextPool
    \/ kind = "stack" /\ NextStack
    \/ kind = "queue" /\ NextQueue

\* some thread takes a step whenever one can: nothing is said of which
SpecLockFree == InitLockFree /\ [][NextLockFree]_vars /\ WF_vars(NextLockFree)

\* an operation of thread t is between its call and its return
Running(t) == pc[t] \notin {"idle", "ret"}

QueueNonAtomicPush(t) ==
    /\ CanStart(t)
    /\ serial
    /\ kind = "queue"
    /\ t \in producers
    /\ op' = Upd(op, t, "QNAPush")
    /\ arg' = Upd(arg, t, FreshValue)
    /\ pc' = Upd(pc, t, "acq_load")
    /\ opsLeft' = opsLeft - 1
    /\ UNCHANGED <<cfgVars, poolVars, contVars, head_tmp, next, idx, old, prev, old_back, result, retval>>
    /\ UNCHANGED weakVars
    /\ UNCHANGED <<nHeld, held, pushOrder, popOrder, ticket, absStack, nodeStack, sawEmpty, nSteps, acqFails, missed, last, acqSince, popSince, qNodes, built, nAcquired>>

\* bool NonAtomicPop(T& result)
QueueNonAtomicPop(t) ==
    /\ CanStart(t)
    /\ serial
    /\ kind = "queue"
    /\ t \in consumers
    /\ op' = Upd(op, t, "QNAPop")
    /\ pc' = Upd(pc, t, "q_na_pop")
    /\ opsLeft' = opsLeft - 1
    /\ UNCHANGED <<cfgVars, poolVars, contVars, arg, head_tmp, next, idx, old, prev, old_back, result, retval>>
    /\ UNCHANGED weakVars
    /\ UNCHANGED <<nHeld, held, pushOrder, popOrder, ticket, absStack, nodeStack, sawEmpty, nSteps, acqFails, missed, last, acqSince, popSince, qNodes, built, nAcquired>>

\* old_front = mFront.load(); old_front_prev = old_front->mPrev.load();
\* if (old_front_prev) mFront.store(tNodePtr(old_front_prev.GetPtr(), old_front.GetTag() + 1))
QueuePopNonAtomically(t) ==
    /\ pc[t] = "q_na_pop"
    /\ old' = Upd(old, t, mFront)
    /\ prev' = Upd(prev, t, mPrev[mFront.ptr])
    /\ IF mPrev[mFront.ptr].ptr = nullptr
         THEN /\ pc' = Upd(pc, t, "ret")
              /\ retval' = Upd(retval, t, FALSE)
              /\ UNCHANGED <<mFront, popOrder, ticket, qNodes>>
         ELSE /\ mFront' = tNodePtr(mPrev[mFront.ptr].ptr, (mFront.tag + 1) % TagModulus)
              /\ TakeTicket(t, QueueFrontValue)
              /\ qNodes' = IF qNodes = <<>> THEN <<>> ELSE Tail(qNodes)
              /\ pc' = Upd(pc, t, "q_pop_data")
              /\ UNCHANGED retval
    /\ UNCHANGED <<cfgVars, poolVars, mPrev, mTop, mBack, op, arg, head_tmp, next, idx, old_back, result>>
    /\ UNCHANGED weakVars
    /\ UNCHANGED <<opsLeft, nHeld, held, pushOrder, absStack, nodeStack, sawEmpty, nSteps, acqFails, missed, pre, last, acqSince, popSince, built, nAcquired>>

\* cMPSCLockFreeQueue::NonAtomicPush: LinkBackNodeNonAtomically, the steps
\* of LinkBackNodeAtomically with relaxed memory orders
MPSCNonAtomicPush(t) ==
    /\ CanStart(t)
    /\ serial
    /\ kind = "mpsc"
    /\ t \in producers
    /\ op' = Upd(op, t, "MNAPush")
    /\ arg' = Upd(arg, t, FreshValue)
    /\ pc' = Upd(pc, t, "acq_load")
    /\ opsLeft' = opsLeft - 1
    /\ UNCHANGED <<cfgVars, poolVars, contVars, head_tmp, next, idx, old, prev, old_back, result, retval>>
    /\ UNCHANGED weakVars
    /\ UNCHANGED <<nHeld, held, pushOrder, popOrder, ticket, absStack, nodeStack, sawEmpty, nSteps, acqFails, missed, last, acqSince, popSince, qNodes, built, nAcquired>>

\* cMPSCLockFreeQueue::NonAtomicPop: the steps of Pop with a relaxed load
MPSCNonAtomicPop(t) ==
    /\ CanStart(t)
    /\ serial
    /\ kind = "mpsc"
    /\ t \in consumers
    /\ op' = Upd(op, t, "MNAPop")
    /\ pc' = Upd(pc, t, "m_pop_load")
    /\ opsLeft' = opsLeft - 1
    /\ UNCHANGED <<cfgVars, poolVars, contVars, arg, head_tmp, next, idx, old, prev, old_back, result, retval>>
    /\ UNCHANGED weakVars
    /\ UNCHANGED <<nHeld, held, pushOrder, popOrder, ticket, absStack, nodeStack, sawEmpty, nSteps, acqFails, missed, last, acqSince, popSince, qNodes, built, nAcquired>>

\* ---------------- specification: stack or queue of either class, one call at a time
\* a local pool with no slot for the sentinel
LocalPoolSizeNoSentinel(n) == n

\* cLockFreeQueue<T, storage>: cLockFreeQueueLocalStorage<storage + 1, ...>
LocalPoolSize(n) == n + 1

InitSerial ==
    /\ \/ InitStackOf(StackCapacity)
       \/ InitQueueOf(LocalPoolSize(QueueSize))
       \/ InitMPSCOf(LocalPoolSize(QueueSize))
    /\ serial = TRUE
    /\ producers = Threads
    /\ consumers = IF kind = "mpsc" THEN {NumThreads} ELSE Threads
    /\ opsLeft = SerialOps

NextSerial ==
    \E t \in Threads :
        \/ kind = "stack" /\ StackPush(t)
        \/ kind = "stack" /\ StackNonAtomicPush(t)
        \/ kind = "stack" /\ StackPop(t)
        \/ kind = "stack" /\ StackNonAtomicPop(t)
        \/ StackConstruct(t)
        \/ StackLinkLoad(t)
        \/ StackPushCASOk(t)
        \/ StackLinkNonAtomically(t)
        \/ StackPopLoad(t)
        \/ StackPopReadPrev(t)
        \/ StackPopCASOk(t)
        \/ StackPopNonAtomically(t)
        \/ StackPopMove(t)
        \/ QueuePush(t)
        \/ QueueNonAtomicPush(t)
        \/ QueuePop(t)
        \/ QueueNonAtomicPop(t)
        \/ QueueConstruct(t)
        \/ QueueExchange(t)
        \/ QueueSetData(t)
        \/ QueueStorePrev(t)
        \/ QueuePopLoad(t)
        \/ QueuePopReadPrev(t)
        \/ QueuePopCASOk(t)
        \/ QueuePopNonAtomically(t)
        \/ QueuePopMove(t)
        \/ MPSCPush(t)
        \/ MPSCNonAtomicPush(t)
        \/ MPSCPop(t)
        \/ MPSCNonAtomicPop(t)
        \/ MPSCStep(t)
        \/ PoolStraight(t)

SpecSerial == InitSerial /\ [][NextSerial]_vars

PopOps == {"Pop", "NAPop", "QPop", "QNAPop", "MPop", "MNAPop"}
PushOps == {"Push", "NAPush", "QPush", "QNAPush", "MPush", "MNAPush"}

\* an Empty() that compares the front and back words of a queue
EmptyInFrontIsBack(m) ==
    IF kind = "stack" THEN m.mTop.ptr = nullptr
    ELSE m.mFront = m.mBack

\* Empty() of the container under test, evaluated in the memory m
EmptyIn(m) ==
    IF kind = "stack" THEN m.mTop.ptr = nullptr
    ELSE m.mPrev[m.mFront.ptr].ptr = nullptr

\* C12: a Pop (atomic or NonAtomic, of the stack, the MPMC or the MPSC
\* queue) called on an empty container returns false, leaves the
\* out-parameter as it was and changes neither top / front / back and their
\* tags nor the pool's head and slots.
C12_PopOnEmpty ==
    \A t \in Threads :
        (pc[t] = "ret" /\ op[t] \in PopOps /\ EmptyIn(pre)) =>
            /\ ~retval[t]
            /\ result[t] = 0
            /\ Snapshot = pre

\* a NonAtomicPop has returned false on an MPMC queue that is empty again
\* after it held elements
C12_Witness ==
    \E t \in Threads :
        /\ pc[t] = "ret"
        /\ op[t] = "QNAPop"
        /\ EmptyIn(pre)
        /\ Len(popOrder) >= 1

\* C13: a Push (atomic or NonAtomic, of the stack, the MPMC or the MPSC
\* queue) called when the pool has no free slot returns false and leaves top /
\* front / back, every node and link, and so the elements and their order, as
\* they were at the call.
C13_PushOnExhausted ==
    \A t \in Threads :
        (pc[t] = "ret" /\ op[t] \in PushOps /\ IsNull(pre.mHead.mIdx)) =>
            /\ ~retval[t]
            /\ Snapshot = pre

\* a NonAtomicPush has returned from an MPSC queue that held QueueSize
\* elements at the call, its sentinel taking the last slot of the pool
C13_Witness ==
    \E t \in Threads :
        /\ pc[t] = "ret"
        /\ op[t] = "MNAPush"
        /\ IsNull(pre.mHead.mIdx)
        /\ Len(MPSCContents) = QueueSize

\* C17: when no operation is in progress on a stack, an MPMC queue or an
\* MPSC queue, Empty() returns true if and only if the next Pop (atomic or
\* NonAtomic) returns false.
C17_EmptyIffPopFails ==
    \A t \in Threads :
        (pc[t] = "ret" /\ op[t] \in PopOps) => (EmptyIn(pre) <=> ~retval[t])

\* a second Pop of the MPSC queue has returned true for a queue that Empty()
\* reported as not empty at the call
C17_Witness ==
    \E t \in Threads :
        /\ pc[t] = "ret"
        /\ op[t] = "MPop"
        /\ retval[t]
        /\ ~EmptyIn(pre)
        /\ Len(popOrder) = 2

\* the slots on the free list of the memory m, as Full() walks it
RECURSIVE FreeWalk(_, _, _)
FreeWalk(m, i, fuel) ==
    IF IsNull(i) \/ fuel = 0 THEN 0 ELSE 1 + FreeWalk(m, m.mStorage[i], fuel - 1)

FreeCountIn(m) == FreeWalk(m, m.mHead.mIdx, mCapacity)

\* the nodes from the top of the stack down to the null pointer
RECURSIVE StackLen(_, _, _)
StackLen(m, p, fuel) ==
    IF p = nullptr \/ fuel = 0 THEN 0 ELSE 1 + StackLen(m, m.mPrev[p].ptr, fuel - 1)

\* the nodes from the front of a queue up to its sentinel, which has a null mPrev
RECURSIVE QueueLen(_, _, _)
QueueLen(m, p, fuel) ==
    IF m.mPrev[p].ptr = nullptr \/ fuel = 0 THEN 0
    ELSE 1 + QueueLen(m, m.mPrev[p].ptr, fuel - 1)

\* the number of elements the container under test stores in the memory m
SizeIn(m) ==
    IF kind = "stack" THEN StackLen(m, m.mTop.ptr, mCapacity)
    ELSE QueueLen(m, m.mFront.ptr, mCapacity)

\* C18: called one after the other on an empty stack, MPMC queue or MPSC
\* queue whose pool has a free slot, Push(x) returns true and the Pop that
\* follows returns true with x, leaves the container empty and the pool with
\* as many free slots as before the Push.
C18_RoundTrip ==
    \A t \in Threads :
        (/\ pc[t] = "ret"
         /\ op[t] \in PopOps
         /\ last.op \in PushOps
         /\ EmptyIn(last.pre)
         /\ ~IsNull(last.pre.mHead.mIdx)) =>
            /\ last.retval
            /\ retval[t]
            /\ result[t] = last.arg
            /\ EmptyIn(Snapshot)
            /\ FreeCountIn(Snapshot) = FreeCountIn(last.pre)

\* a Pop has returned from its second round trip on an MPMC queue, after a
\* NonAtomicPush into the empty queue
C18_Witness ==
    \E t \in Threads :
        /\ pc[t] = "ret"
        /\ op[t] = "QPop"
        /\ last.op = "QNAPush"
        /\ EmptyIn(last.pre)
        /\ Len(popOrder) = 2

\* the N of cLockFreeStack<T, N>, cLockFreeQueue<T, N> or cMPSCLockFreeQueue<T, N>
LocalN == IF kind = "stack" THEN StackCapacity ELSE QueueSize

\* C19: a local-storage stack or queue of N holds at most N elements: with
\* k elements stored a Push returns true if k < N and false if k = N, the
\* pool of a queue having N + 1 slots of which the sentinel takes one.
C19_LocalCapacity ==
    /\ SizeIn(Snapshot) <= LocalN
    /\ \A t \in Threads :
           (pc[t] = "ret" /\ op[t] \in PushOps) => (retval[t] <=> SizeIn(pre) < LocalN)

\* a Push has returned true from an MPMC queue that held N - 1 elements
\* after a Pop had made room in the full queue
C19_Witness ==
    \E t \in Threads :
        /\ kind = "queue"
        /\ pc[t] = "ret"
        /\ op[t] \in PushOps
        /\ retval[t]
        /\ SizeIn(pre) = LocalN - 1
        /\ last.op \in PopOps
        /\ last.retval
        /\ SizeIn(last.pre) = LocalN

\* no slot of the pool is free: each one is acquired and not yet released
NoFreeSlot == \A i \in Slots : nHeld[i] # 0

\* thread t takes the step of AcquireIdx that reads the head: the first load,
\* or the compare_exchange that fails and loads the current head
ReadsHead(t) ==
    /\ pc[t] \in {"acq_load", "acq_cas"}
    /\ pc'[t] # pc[t]
    /\ pc[t] = "acq_cas" => mHead # head_tmp[t]

\* thread t takes the step after which its Acquire or AcquirePtr returns null
ReturnsNull(t) == pc[t] # "ret" /\ pc'[t] = "ret" /\ ~retval'[t] /\ idx'[t] = NULL_IDX

\* C14: Acquire / AcquirePtr return null exactly when no slot is free at the
\* moment AcquireIdx reads the head; the step that decides so constructs
\* nothing and leaves the head, its tag and every slot's next link unchanged.
C14_AcquireNull ==
    [][\A t \in Threads :
          (op[t] \in {"Acquire", "AcquirePtr"} /\ pc'[t] # pc[t]) =>
              /\ ReadsHead(t) => (ReturnsNull(t) <=> NoFreeSlot)
              /\ ReturnsNull(t) => ReadsHead(t) /\ UNCHANGED <<mHead, mStorage>>
              /\ pc'[t] = "construct" => retval'[t] /\ ~IsNull(idx'[t])]_vars

\* an Acquire has returned null while the two threads hold every slot
C14_Witness ==
    \E t, u \in Threads :
        /\ t # u
        /\ pc[t] = "ret"
        /\ op[t] = "Acquire"
        /\ ~retval[t]
        /\ held[t] # {}
        /\ held[u] # {}
        /\ NoFreeSlot

\* for (i = 0; i != n; ++i) { if (IsNull(cur.mIdx)) return false; cur = GetNode(cur.mIdx)->mNext; } return true;
RECURSIVE FullWalk(_, _)
FullWalk(cur, n) ==
    IF n = 0 THEN TRUE
    ELSE IF IsNull(cur) THEN FALSE
    ELSE FullWalk(mStorage[cur], n - 1)

\* a Full() whose loop stops one step short of mCapacity
FullOneShort == FullWalk(mHead.mIdx, mCapacity - 1)

\* bool Full() const: mCapacity steps from mHead along mNext meet no null index
Full == FullWalk(mHead.mIdx, mCapacity)

\* C15: whenever no Acquire or Release is in progress, Full() is true exactly
\* when no acquired slot is outstanding, whatever Acquires and Releases came
\* before and in whatever order the slots were released.
C15_FullIffNoneOutstanding ==
    Quiescent => (Full <=> (\A i \in Slots : nHeld[i] = 0))

\* the pool is full again after every slot was acquired and released, in an
\* order that leaves another slot at the head than the constructor did
C15_Witness ==
    /\ Quiescent
    /\ Full
    /\ kind = "pool"
    /\ mHead.mTag = mCapacity
    /\ mHead.mIdx # ReleaseAllPtrsHead(mCapacity).mIdx
    /\ \A t \in Threads : held[t] = {}

\* bool Empty() const (of the pool): return IsNull(mHead.load().mIdx);
PoolEmpty == IsNull(mHead.mIdx)

\* the Acquires that have succeeded so far: each one adds one to the head's tag
Acquired == mHead.mTag

\* the slots acquired and not yet released
Outstanding == {i \in Slots : nHeld[i] # 0}

\* an Acquire of thread t is in progress
InAcquire(t) == op[t] \in {"Acquire", "AcquirePtr"} /\ pc[t] \in {"acq_load", "acq_read", "acq_cas"}

\* no Release was called yet: none is in progress and every Acquire that
\* succeeded still has its slot outstanding
NoReleaseYet ==
    /\ \A t \in Threads : op[t] = "Release" => pc[t] = "idle"
    /\ Acquired = Cardinality(Outstanding)

\* mCapacity Acquires succeeded and no Release was called
Saturated == NoReleaseYet /\ Acquired = mCapacity

\* while no Release was called an Acquire returns null only when mCapacity
\* others have succeeded; once they have, Empty() is true and the threads
\* hold mCapacity distinct slots between them
C16_SaturationState ==
    /\ NoReleaseYet =>
          \A t \in Threads :
              (pc[t] = "ret" /\ op[t] \in {"Acquire", "AcquirePtr"} /\ ~retval[t]) =>
                  Acquired = mCapacity
    /\ Saturated => PoolEmpty
    /\ (Saturated /\ Quiescent) =>
          /\ UNION {held[t] : t \in Threads} = Slots
          /\ \A t, u \in Threads : t # u => held[t] \cap held[u] = {}
    /\ (Quiescent /\ Acquired = mCapacity /\ Outstanding = {}) => Full

\* an Acquire in progress when the pool is saturated ends by returning null
C16_FurtherAcquire ==
    \A t \in Threads :
        (Saturated /\ InAcquire(t) /\ pc'[t] # pc[t]) =>
            \/ pc[t] = "acq_read" /\ pc'[t] = "acq_cas"
            \/ pc'[t] = "ret" /\ ~retval'[t]

\* C16: on a pool of capacity N, the first N Acquires made with no Release
\* return non-null, distinct slots in every interleaving; Empty() is then true
\* and a further Acquire returns null; once all N slots have been released,
\* in any order, Full() is true.
C16_Saturation == []C16_SaturationState /\ [][C16_FurtherAcquire]_vars

\* one Acquire too many has returned null on the saturated pool, each thread
\* holding a slot
C16_Witness ==
    /\ Saturated
    /\ PoolEmpty
    /\ \A t \in Threads : held[t] # {}
    /\ \E t \in Threads : pc[t] = "ret" /\ op[t] = "Acquire" /\ ~retval[t]

\* every slot of the saturated pool was released and Full() is true
C16_WitnessFull ==
    /\ Quiescent
    /\ Acquired = mCapacity
    /\ Outstanding = {}
    /\ Full
    /\ kind = "pool"

\* ------------------- specification: a queue, a stack and callers on one pool
SharedCapacity == 3
SharedOps == 4

\* a pool of SharedCapacity slots, cLockFreeQueue(pool) and cLockFreeStack(pool)
\* constructed on it: the queue's constructor has acquired its sentinel
InitShared ==
    /\ InitQueueOf(SharedCapacity)
    /\ serial = FALSE
    /\ producers = Threads
    /\ consumers = Threads
    /\ opsLeft = SharedOps

NextShared ==
    \E t \in Threads :
        \/ QueuePush(t)
        \/ QueuePop(t)
        \/ QueueStep(t)
        \/ StackPush(t)
        \/ StackPop(t)
        \/ StackConstruct(t)
        \/ StackLinkLoad(t)
        \/ StackPushCASOk(t)
        \/ StackPushCASFail(t)
        \/ StackPopLoad(t)
        \/ StackPopReadPrev(t)
        \/ StackPopCASOk(t)
        \/ StackPopCASFail(t)
        \/ StackPopMove(t)
        \/ PoolAcquire(t)
        \/ PoolAcquirePtr(t)
        \/ PoolRelease(t)
        \/ PoolConstruct(t)
        \/ PoolStep(t)

SpecShared == InitShared /\ [][NextShared]_vars

\* the slots of the pool that are not on its free list
NotOnFreeList == mCapacity - FreeCountIn(Snapshot)

\* the elements stored in the stack and in the queue
StackStored == StackLen(Snapshot, mTop.ptr, mCapacity + 1)
QueueStored == QueueLen(Snapshot, mFront.ptr, mCapacity + 1)

\* the slots callers hold from their own Acquire / AcquirePtr
HeldDirectly == Cardinality(UNION {held[t] : t \in Threads})

C20_WitnessHeld ==
    /\ Quiescent
    /\ kind = "queue"
    /\ QueueStored = 1
    /\ HeldDirectly = 1
    /\ PoolEmpty

\* ------------- specification: a container used serially and then destroyed
LifeOps == 3

\* no call is in progress, so the destructor's thread can take its next step
DtorCanStep(t) == \A u \in Threads : pc[u] = "idle"

\* ~cLockFreeStack / ~cLockFreeQueue: while (NonAtomicPop(dummy)); the loop
\* makes its first call, or another one after a call that returned true
DtorNonAtomicPop(t) ==
    /\ kind \in {"stack", "queue"}
    /\ DtorCanStep(t)
    /\ \/ lifetime = "live"
       \/ lifetime = "draining" /\ last.retval
    /\ lifetime' = "draining"
    /\ op' = Upd(op, t, IF kind = "stack" THEN "NAPop" ELSE "QNAPop")
    /\ pc' = Upd(pc, t, IF kind = "stack" THEN "s_na_pop" ELSE "q_na_pop")
    /\ TakeSnapshot
    /\ UNCHANGED <<kind, serial, producers, consumers, requested, mCapacity>>
    /\ UNCHANGED weakVars
    /\ UNCHANGED <<poolVars, contVars, arg, head_tmp, next, idx, old, prev, old_back, result, retval>>
    /\ UNCHANGED <<opsLeft, nHeld, held, pushOrder, popOrder, ticket, absStack, nodeStack, sawEmpty, nSteps, acqFails, missed, last, acqSince, popSince, qNodes, built, nAcquired>>

\* a ~cLockFreeQueue that ends once the queue is drained
DtorReleaseSentinelSkipped(t) ==
    /\ kind = "queue"
    /\ DtorCanStep(t)
    /\ lifetime = "draining"
    /\ ~last.retval
    /\ lifetime' = "dead"
    /\ UNCHANGED <<kind, serial, producers, consumers, requested, mCapacity>>
    /\ UNCHANGED weakVars
    /\ UNCHANGED <<poolVars, contVars, locVars, histVars>>

\* ~cLockFreeQueue, NonAtomicPop has returned false:
\* mNodePool.ReleasePtr(mFront.load().GetPtr())
DtorReleaseSentinel(t) ==
    /\ kind = "queue"
    /\ DtorCanStep(t)
    /\ lifetime = "draining"
    /\ ~last.retval
    /\ lifetime' = "sentinel"
    /\ op' = Upd(op, t, "Release")
    /\ idx' = Upd(idx, t, mFront.ptr)
    /\ pc' = Upd(pc, t, "rel_load")
    /\ TakeSnapshot
    /\ UNCHANGED <<kind, serial, producers, consumers, requested, mCapacity>>
    /\ UNCHANGED weakVars
    /\ UNCHANGED <<poolVars, contVars, arg, head_tmp, next, old, prev, old_back, result, retval>>
    /\ UNCHANGED <<opsLeft, nHeld, held, pushOrder, popOrder, ticket, absStack, nodeStack, sawEmpty, nSteps, acqFails, missed, last, acqSince, popSince, built, nAcquired>>
    /\ qNodes' = <<>>

\* the destructor returns: ~cLockFreeStack when NonAtomicPop has returned
\* false, ~cLockFreeQueue when the sentinel's ReleasePtr has returned
DtorReturn(t) ==
    /\ DtorCanStep(t)
    /\ \/ kind = "stack" /\ lifetime = "draining" /\ ~last.retval
       \/ kind = "queue" /\ lifetime = "sentinel"
    /\ lifetime' = "dead"
    /\ UNCHANGED <<kind, serial, producers, consumers, requested, mCapacity>>
    /\ UNCHANGED weakVars
    /\ UNCHANGED <<poolVars, contVars, locVars, histVars>>

\* cMPSCLockFreeQueue declares no destructor: the implicit one destroys the
\* members mNodePool (a reference), mBack and mFront (pointers) and calls nothing
DtorMPSC(t) ==
    /\ kind = "mpsc"
    /\ DtorCanStep(t)
    /\ lifetime = "live"
    /\ lifetime' = "dead"
    /\ UNCHANGED <<kind, serial, producers, consumers, requested, mCapacity>>
    /\ UNCHANGED weakVars
    /\ UNCHANGED <<poolVars, contVars, locVars, histVars>>

\* a stack, an MPMC queue or an MPSC queue on a pool that callers also use directly
InitLife ==
    /\ \/ InitStackOf(StackCapacity)
       \/ InitQueueOf(LocalPoolSize(QueueSize))
       \/ InitMPSCOf(LocalPoolSize(QueueSize))
    /\ serial = TRUE
    /\ producers = Threads
    /\ consumers = IF kind = "mpsc" THEN {NumThreads} ELSE Threads
    /\ opsLeft = LifeOps

NextLife ==
    \E t \in Threads :
        \/ kind = "stack" /\ StackPush(t)
        \/ kind = "stack" /\ StackPop(t)
        \/ StackConstruct(t)
        \/ StackLinkLoad(t)
        \/ StackPushCASOk(t)
        \/ StackPopLoad(t)
        \/ StackPopReadPrev(t)
        \/ StackPopCASOk(t)
        \/ StackPopNonAtomically(t)
        \/ StackPopMove(t)
        \/ QueuePush(t)
        \/ QueuePop(t)
        \/ QueueConstruct(t)
        \/ QueueExchange(t)
        \/ QueueSetData(t)
        \/ QueueStorePrev(t)
        \/ QueuePopLoad(t)
        \/ QueuePopReadPrev(t)
        \/ QueuePopCASOk(t)
        \/ QueuePopNonAtomically(t)
        \/ QueuePopMove(t)
        \/ MPSCPush(t)
        \/ MPSCPop(t)
        \/ MPSCStep(t)
        \/ PoolAcquirePtr(t)
        \/ PoolRelease(t)
        \/ PoolStraight(t)
        \/ DtorNonAtomicPop(t)
        \/ DtorReleaseSentinel(t)
        \/ DtorReturn(t)
        \/ DtorMPSC(t)

SpecLife == InitLife /\ [][NextLife]_vars

\* C21: once the destructor of a stack or of an MPMC queue has returned, the
\* slots off the pool's free list are the ones other callers hold directly:
\* every element node and the queue's sentinel are back on the list, and a
\* pool nobody else holds a slot of is Full().
C21_DestructorReleasesAll ==
    (lifetime = "dead" /\ kind \in {"stack", "queue"}) =>
        /\ NotOnFreeList = HeldDirectly
        /\ \A i \in Slots : nHeld[i] = (IF \E t \in Threads : i \in held[t] THEN 1 ELSE 0)
        /\ HeldDirectly = 0 => Full

\* a queue destroyed with an element in it, on a pool that is then full
C21_Witness ==
    /\ lifetime = "dead"
    /\ kind = "queue"
    /\ Len(pushOrder) = 2
    /\ Len(popOrder) = 2
    /\ last.op = "Release"
    /\ HeldDirectly = 0
    /\ Full

\* a stack destroyed with two elements on it
C21_WitnessStack ==
    /\ lifetime = "dead"
    /\ kind = "stack"
    /\ Len(pushOrder) = 2
    /\ opsLeft = LifeOps - 2
    /\ Full

\* C22: once an MPSC queue on a pool has been destroyed, its element nodes
\* and its sentinel are back on the free list: the slots off the list are the
\* ones other callers hold, and a pool used by the queue alone is Full().
C22_MPSCDestructorReleasesAll ==
    (lifetime = "dead" /\ kind = "mpsc") =>
        /\ NotOnFreeList = HeldDirectly
        /\ HeldDirectly = 0 => Full

\* ------------- specification: the MPSC queue, several producers, one consumer
\* producers; the consumer is one more thread
MPSCProducers == 2
\* values the producers push between them, each value once; the pool has a
\* slot for each and one for the sentinel, so that no Push fails
MPSCPushes == 3

InitMPSC ==
    /\ InitThreadsOf(1..(MPSCProducers + 1))
    /\ InitMPSCMemory(LocalPoolSize(MPSCPushes))
    /\ serial = FALSE
    /\ producers = 1..MPSCProducers
    /\ consumers = {MPSCProducers + 1}
    /\ opsLeft = MPSCPushes

\* the consumer's loop: it calls Pop again, whatever the calls before returned
MPSCKeepPopping(t) ==
    /\ pc[t] = "idle"
    /\ kind = "mpsc"
    /\ t \in consumers
    /\ op' = Upd(op, t, "MPop")
    /\ pc' = Upd(pc, t, "m_pop_load")
    /\ UNCHANGED <<cfgVars, poolVars, contVars, arg, head_tmp, next, idx, old, prev, old_back, result, retval>>
    /\ UNCHANGED weakVars
    /\ UNCHANGED histVars

NextMPSC ==
    \E t \in Threads :
        \/ MPSCPush(t)
        \/ MPSCKeepPopping(t)
        \/ MPSCStep(t)
        \/ PoolStep(t)

SpecMPSC == InitMPSC /\ [][NextMPSC]_vars

\* the values the consumer's successful Pops have returned
Popped == {popOrder[k].got : k \in DOMAIN popOrder}

\* the values whose Push has been called
Pushed == (opsLeft + 1)..MPSCPushes

\* C23: with several producers pushing distinct values and one consumer, the
\* successful Pops return values that were pushed, each at most once; a queue
\* found empty once every Push has returned has given out every value; and
\* when the consumer has as many successes as there are values it has seen
\* exactly those values, Empty() is true and a further Pop returns false.
C23_MPSCProducersConsumer ==
    /\ Popped \subseteq Pushed
    /\ \A j, k \in DOMAIN popOrder : j # k => popOrder[j].got # popOrder[k].got
    /\ (Quiescent /\ opsLeft = 0 /\ Empty) => Len(popOrder) = MPSCPushes
    /\ Len(popOrder) = MPSCPushes =>
          /\ Popped = 1..MPSCPushes
          /\ Empty
          /\ \A t \in consumers : (pc[t] = "ret" /\ ticket[t] = 0) => ~retval[t]

\* the consumer has every value, got in another order than the producers'
\* calls were made, and its further Pop has returned false
C23_Witness ==
    /\ Len(popOrder) = MPSCPushes
    /\ popOrder[1].got # MPSCPushes
    /\ \E t \in consumers : pc[t] = "ret" /\ ticket[t] = 0 /\ ~retval[t]
    /\ \A t \in producers : pc[t] = "idle"

\* ----------------- the NonAtomic functions as functions of the memory m
\* what a call leaves: the memory, its return value and its out-parameter
Outcome(m, r, res) == [m |-> m, retval |-> r, result |-> res]

\* AcquireIdx with nobody else at the pool: the head slot comes off the list
AcquireIdxAlone(m) == [m EXCEPT !.mHead = AcquireNewHead(m.mStorage[m.mHead.mIdx], m.mHead)]

\* ReleaseIdx(i) with nobody else at the pool: slot i becomes the head
ReleaseIdxAlone(m, i) ==
    [m EXCEPT !.mStorage[i] = m.mHead.mIdx, !.mHead = tIndexTag(i, m.mHead.mTag)]

\* cLockFreeStack::NonAtomicPush(v)
StackNonAtomicPushOf(m, v) ==
    IF IsNull(m.mHead.mIdx) THEN Outcome(m, FALSE, 0)
    ELSE LET i == m.mHead.mIdx
             a == AcquireIdxAlone(m)
         IN  Outcome([a EXCEPT !.mStorage[i] = v,
                               !.mPrev[i] = m.mTop,
                               !.mTop = tNodePtr(i, m.mTop.tag)], TRUE, 0)

\* cLockFreeStack::NonAtomicPop(result)
StackNonAtomicPopOf(m) ==
    IF m.mTop.ptr = nullptr THEN Outcome(m, FALSE, 0)
    ELSE LET old_top == m.mTop
             new_top == tNodePtr(m.mPrev[old_top.ptr].ptr, (old_top.tag + 1) % TagModulus)
         IN  Outcome(ReleaseIdxAlone([m EXCEPT !.mTop = new_top], old_top.ptr),
                     TRUE, m.mStorage[old_top.ptr])

\* cLockFreeQueue::NonAtomicPush(v): LinkBackNodeNonAtomically
QueueNonAtomicPushOf(m, v) ==
    IF IsNull(m.mHead.mIdx) THEN Outcome(m, FALSE, 0)
    ELSE LET i == m.mHead.mIdx
             a == AcquireIdxAlone(m)
             b == [a EXCEPT !.mPrev[i] = NullNodePtr]
         IN  Outcome([b EXCEPT !.mBack = tNodePtr(i, 0),
                               !.mStorage[m.mBack.ptr] = v,
                               !.mPrev[m.mBack.ptr] = tNodePtr(i, 0)], TRUE, 0)

\* cLockFreeQueue::NonAtomicPop(result)
QueueNonAtomicPopOf(m) ==
    LET old_front == m.mFront
        old_front_prev == m.mPrev[old_front.ptr]
    IN  IF old_front_prev.ptr = nullptr THEN Outcome(m, FALSE, 0)
        ELSE Outcome(ReleaseIdxAlone(
                        [m EXCEPT !.mFront = tNodePtr(old_front_prev.ptr,
                                                      (old_front.tag + 1) % TagModulus)],
                        old_front.ptr),
                     TRUE, m.mStorage[old_front.ptr])

\* cMPSCLockFreeQueue::NonAtomicPush(v): LinkBackNodeNonAtomically
MPSCNonAtomicPushOf(m, v) ==
    IF IsNull(m.mHead.mIdx) THEN Outcome(m, FALSE, 0)
    ELSE LET i == m.mHead.mIdx
             a == AcquireIdxAlone(m)
             b == [a EXCEPT !.mStorage[i] = v, !.mPrev[i] = NullNodePtr]
         IN  Outcome([b EXCEPT !.mBack = tNodePtr(i, 0),
                               !.mPrev[m.mBack.ptr] = tNodePtr(i, 0)], TRUE, 0)

\* cMPSCLockFreeQueue::NonAtomicPop(result)
MPSCNonAtomicPopOf(m) ==
    LET old_front == m.mFront
        node_to_pop == m.mPrev[old_front.ptr]
    IN  IF node_to_pop.ptr = nullptr THEN Outcome(m, FALSE, 0)
        ELSE Outcome(ReleaseIdxAlone([m EXCEPT !.mFront = node_to_pop], old_front.ptr),
                     TRUE, m.mStorage[node_to_pop.ptr])

\* the NonAtomic function that stands for call o of the container under test
NonAtomicOf(o, m, v) ==
    CASE o \in {"Push", "NAPush"}   -> StackNonAtomicPushOf(m, v)
      [] o \in {"Pop", "NAPop"}     -> StackNonAtomicPopOf(m)
      [] o \in {"QPush", "QNAPush"} -> QueueNonAtomicPushOf(m, v)
      [] o \in {"QPop", "QNAPop"}   -> QueueNonAtomicPopOf(m)
      [] o \in {"MPush", "MNAPush"} -> MPSCNonAtomicPushOf(m, v)
      [] o \in {"MPop", "MNAPop"}   -> MPSCNonAtomicPopOf(m)

\* C24: called one at a time, Push / Pop and NonAtomicPush / NonAtomicPop of
\* the stack and of both queues are the same function of the memory: every
\* call, atomic or not, returns what the NonAtomic function returns on the
\* memory it found, gives the same value out, and leaves the same head,
\* slots, links, top / front / back pointers and tags.
C24_NonAtomicEquivalent ==
    \A t \in Threads :
        (pc[t] = "ret" /\ op[t] \in PushOps \cup PopOps) =>
            Outcome(Snapshot, retval[t], result[t]) = NonAtomicOf(op[t], pre, arg[t])

\* an atomic Pop has returned the value a NonAtomicPush had put on the stack,
\* with tags that moved before
C24_Witness ==
    \E t \in Threads :
        /\ pc[t] = "ret"
        /\ op[t] = "Pop"
        /\ retval[t]
        /\ last.op = "NAPush"
        /\ result[t] = last.arg
        /\ mTop.tag > 1

\* an atomic Push on the MPMC queue has followed a NonAtomicPop that succeeded
C24_WitnessQueue ==
    \E t \in Threads :
        /\ pc[t] = "ret"
        /\ op[t] = "QPush"
        /\ retval[t]
        /\ last.op = "QNAPop"
        /\ last.retval

\* ------- specification: the stack under tasks that push and tasks that pop
\* P: tasks that push one value, and as many tasks that pop until they succeed;
\* LaunchParallelTask gives every task a thread of its own
StackTasks == 2

\* thread t has gone through its task
TaskDone(t) == pc[t] = "ret" /\ retval[t]

InitStackTasks ==
    /\ InitThreadsOf(1..(2 * StackTasks))
    /\ InitPoolOf(StackTasks)
    /\ kind = "stack"
    /\ serial = FALSE
    /\ producers = 1..StackTasks
    /\ consumers = (StackTasks + 1)..(2 * StackTasks)
    /\ opsLeft = 0
    /\ mTop = tNodePtr(nullptr, 0)
    /\ mFront = NullNodePtr
    /\ mBack = NullNodePtr

\* test_lockfree_stack.Push(random_val), the whole of a pushing task
TaskPush(t) ==
    /\ pc[t] = "idle"
    /\ t \in producers
    /\ op' = Upd(op, t, "Push")
    /\ arg' = Upd(arg, t, t)
    /\ pc' = Upd(pc, t, "acq_load")
    /\ UNCHANGED <<cfgVars, poolVars, contVars, head_tmp, next, idx, old, prev, old_back, result, retval>>
    /\ UNCHANGED weakVars
    /\ UNCHANGED histVars

\* while (!test_lockfree_stack.Pop(result)): the first call of a popping
\* task, and the next one when a call has returned false
TaskPop(t) ==
    /\ t \in consumers
    /\ \/ pc[t] = "idle"
       \/ pc[t] = "ret" /\ ~retval[t]
    /\ op' = Upd(op, t, "Pop")
    /\ pc' = Upd(pc, t, "s_pop_load")
    /\ UNCHANGED <<cfgVars, poolVars, contVars, arg, head_tmp, next, idx, old, prev, old_back, result, retval>>
    /\ UNCHANGED weakVars
    /\ UNCHANGED histVars

\* WaitForAll(futures) has returned: the test's thread calls Pop(dummy); it
\* is run here by the thread of the first task, which has ended
TaskFinalPop(t) ==
    /\ t = 1
    /\ \A u \in Threads : TaskDone(u)
    /\ op' = Upd(op, t, "Pop")
    /\ pc' = Upd(pc, t, "s_pop_load")
    /\ result' = Upd(result, t, 0)
    /\ UNCHANGED <<cfgVars, poolVars, contVars, arg, head_tmp, next, idx, old, prev, old_back, retval>>
    /\ UNCHANGED weakVars
    /\ UNCHANGED histVars

\* the test's Pop(dummy) has returned
FinalPopReturned == pc[1] = "ret" /\ op[1] = "Pop"

TaskStep(t) ==
    \/ TaskPush(t)
    \/ TaskPop(t)
    \/ TaskFinalPop(t)
    \/ StackConstruct(t)
    \/ StackLinkLoad(t)
    \/ StackPushCASOk(t)
    \/ StackPushCASFail(t)
    \/ StackPopLoad(t)
    \/ StackPopReadPrev(t)
    \/ StackPopCASOk(t)
    \/ StackPopCASFail(t)
    \/ StackPopMove(t)
    \/ AcquireLoad(t)
    \/ AcquireReadNext(t)
    \/ AcquireCASOk(t)
    \/ AcquireCASFail(t)
    \/ ReleaseLoad(t)
    \/ ReleaseWriteNext(t)
    \/ ReleaseCASOk(t)
    \/ ReleaseCASFail(t)

NextStackTasks == \E t \in Threads : TaskStep(t)

\* fair scheduling: a thread that can take a step is not suspended for ever
TasksFair == \A t \in 1..(2 * StackTasks) : WF_vars(TaskStep(t))

SpecStackTasks == InitStackTasks /\ [][NextStackTasks]_vars /\ TasksFair

\* C25: with P tasks that push and P tasks that pop until they succeed, P
\* not above the capacity, under fair scheduling every task ends; from then
\* on Empty() is true, and the Pop called afterwards returns, and returns false.
C25_MixedWorkloadTerminates ==
    /\ <>(\A t \in 1..(2 * StackTasks) : TaskDone(t))
    /\ []((\A t \in 1..(2 * StackTasks) : TaskDone(t)) => mTop.ptr = nullptr)
    /\ <>FinalPopReturned
    /\ [](FinalPopReturned => (~retval[1] /\ result[1] = 0 /\ mTop.ptr = nullptr))

\* the Pop after the tasks has returned false; a popping task had found the
\* stack empty before and called Pop again, and both pushes took place
C25_Witness ==
    /\ FinalPopReturned
    /\ ~retval[1]
    /\ Len(pushOrder) = StackTasks
    /\ Len(popOrder) = StackTasks
    /\ mHead.mTag = StackTasks
    /\ mTop.tag = StackTasks

\* ------------------------------------------------- the pool's free list
\* the indices met from index i on by following mNext, at most fuel of them
RECURSIVE FreePath(_, _)
FreePath(i, fuel) ==
    IF IsNull(i) \/ fuel = 0 THEN <<>>
    ELSE <<i>> \o FreePath(mStorage[i], fuel - 1)

\* the walk from mHead, allowed one step more than the pool has slots
FreeList == FreePath(mHead.mIdx, mCapacity + 1)

\* C26: in every state, under any interleaving, the slots reachable from
\* mHead along mNext are the free ones: those not between the Acquire CAS
\* that took them and the Release CAS that puts them back.
C26_ReachableIffFree ==
    Range(FreeList) = {i \in Slots : nHeld[i] = 0}

\* every slot was acquired; one is on the list again, and the one being
\* released already points to it and is not on the list yet
C26_Witness ==
    \E t \in Threads :
        /\ pc[t] = "rel_cas"
        /\ mHead = head_tmp[t]
        /\ ~IsNull(mStorage[idx[t]])
        /\ Range(FreeList) = Slots \ {idx[t]}
        /\ mHead.mTag >= mCapacity

\* C27: in every state, under any interleaving, the walk from mHead along
\* mNext meets no slot twice and comes to a null index within mCapacity steps.
C27_FreeListAcyclic ==
    /\ Len(FreeList) <= mCapacity
    /\ \A j, k \in DOMAIN FreeList : j # k => FreeList[j] # FreeList[k]

\* the whole pool is on the list again, in another order than the
\* constructor's, while a thread is about to read the head slot's next index
C27_Witness ==
    /\ Len(FreeList) = mCapacity
    /\ mCapacity > 1
    /\ FreeList[1] # ReleaseAllPtrsHead(mCapacity).mIdx
    /\ \E t \in Threads : pc[t] = "acq_next"

\* thread t is between its read of mHead and its CAS in AcquireIdx
AcquireInFlight(t) == pc[t] \in {"acq_next", "acq_cas"}

\* thread t takes the step of its Acquire CAS
AcquireCASStep(t) == pc[t] = "acq_cas" /\ pc'[t] # "acq_cas"

\* an Acquire of another thread succeeded since t read mHead: t's CAS cannot
\* succeed, whatever slot is at the head now
C28_StaleHeadRejected ==
    \A t \in Threads :
        (AcquireInFlight(t) /\ acqSince[t] > 0) => mHead # head_tmp[t]

\* a CAS that succeeds hands out the head slot and installs the next index
\* that slot holds as the head of the list; a CAS that fails leaves mHead
\* alone, drops the index it read and reads the head again
C28_CASInstallsNextOfHead ==
    \A t \in Threads :
        AcquireCASStep(t) =>
            IF mHead = head_tmp[t]
              THEN /\ acqSince[t] = 0
                   /\ idx'[t] = mHead.mIdx
                   /\ mHead'.mIdx = mStorage[mHead.mIdx]
                   /\ mHead'.mTag = mHead.mTag + 1
              ELSE /\ mHead' = mHead
                   /\ next'[t] = 0
                   /\ head_tmp'[t] = mHead
                   /\ pc'[t] \in {"acq_next", "ret"}

\* C28: a successful Acquire CAS installs the next index the acquired slot
\* held as the head of the free list, and the CAS of an Acquire fails, its
\* read of the slot being dropped, once another Acquire succeeded since it read
\* mHead, even with the same slot back at the head.
C28_PoolABAProtection ==
    /\ []C28_StaleHeadRejected
    /\ [][C28_CASInstallsNextOfHead]_vars

\* the slot a thread read as the head was acquired and released by others and
\* is the head again, with another next index than the one the thread read
C28_Witness ==
    \E t \in Threads :
        /\ pc[t] = "acq_cas"
        /\ acqSince[t] > 0
        /\ mHead.mIdx = head_tmp[t].mIdx
        /\ mStorage[mHead.mIdx] # next[t]

\* a thread is at its CAS with the head it read still in place
C28_WitnessSuccess ==
    \E t \in Threads :
        /\ pc[t] = "acq_cas"
        /\ mHead = head_tmp[t]
        /\ mHead.mTag > 0
        /\ next[t] = mStorage[mHead.mIdx]
        /\ ~IsNull(next[t])

\* ------------------------- specification: the stack, three threads (C29)
\* bounds: the threads and the calls they make between them
ABAThreads == 3
ABAOps == 5

\* a stack on a pool of StackCapacity slots; the first thread only pops, the
\* last one only pushes, the others do both
InitStackABA ==
    /\ InitThreadsOf(1..ABAThreads)
    /\ InitPoolOf(StackCapacity)
    /\ kind = "stack"
    /\ serial = FALSE
    /\ producers = 2..ABAThreads
    /\ consumers = 1..(ABAThreads - 1)
    /\ opsLeft = ABAOps
    /\ mTop = tNodePtr(nullptr, 0)
    /\ mFront = NullNodePtr
    /\ mBack = NullNodePtr

SpecStackABA == InitStackABA /\ [][NextStack]_vars

\* thread t is between its read of mTop and its CAS in Pop
PopInFlight(t) == pc[t] \in {"s_pop_prev", "s_pop_cas"}

\* thread t takes the step of its Pop CAS
PopCASStep(t) == pc[t] = "s_pop_cas" /\ pc'[t] # "s_pop_cas"

\* the node on top of the stack and the node directly below it
TopNode == IF nodeStack = <<>> THEN nullptr ELSE nodeStack[Len(nodeStack)]
NodeBelowTop == IF Len(nodeStack) < 2 THEN nullptr ELSE nodeStack[Len(nodeStack) - 1]

\* a Pop of another thread succeeded since t read mTop: t's CAS cannot
\* succeed, whatever node is on top now
C29_StaleTopRejected ==
    \A t \in Threads :
        (PopInFlight(t) /\ popSince[t] > 0) => mTop # old[t]

\* a CAS that succeeds detaches the node on top and installs the node directly
\* below it; a CAS that fails leaves mTop alone and drops the mPrev it read
C29_CASInstallsNodeBelow ==
    \A t \in Threads :
        PopCASStep(t) =>
            IF mTop = old[t]
              THEN /\ popSince[t] = 0
                   /\ mTop.ptr = TopNode
                   /\ mTop'.ptr = NodeBelowTop
                   /\ mTop'.tag = mTop.tag + 1
              ELSE /\ mTop' = mTop
                   /\ prev'[t] = NullNodePtr
                   /\ old'[t] = mTop

\* C29: a Pop CAS that succeeds installs as new top the node directly below
\* the popped node; the CAS of a Pop fails once another Pop succeeded since it
\* read mTop, so an mPrev read from a node that was popped, released or pushed
\* again in between is never installed.
C29_StackABAProtection ==
    /\ []C29_StaleTopRejected
    /\ [][C29_CASInstallsNodeBelow]_vars

\* the node a thread read as the top was popped and pushed again by others
\* and is the top again, on another node than the one the thread read below it
C29_Witness ==
    \E t \in Threads :
        /\ pc[t] = "s_pop_cas"
        /\ popSince[t] > 0
        /\ mTop.ptr = old[t].ptr
        /\ prev[t].ptr # NodeBelowTop
        /\ mPrev[mTop.ptr].ptr = NodeBelowTop

\* ------------- specification: a stale observer and a full turn of the tag (C30)
\* bounds: the pairs of calls the other thread runs in one step at the start
\* of a batch, and the tag increments followed beyond one full turn
WrapStride == 64
WrapSlack == 2

\* the tag increments the run follows
WrapBudget == TagModulus + WrapSlack

\* the memory a constructor leaves on a fresh pool of n slots; the queue's
\* constructor has acquired its sentinel
WrapConstructed(k, n) ==
    LET c == AllocateStorage(n)
        fresh == [mHead |-> ReleaseAllPtrsHead(c), mStorage |-> ReleaseAllPtrsNext(c),
                  mPrev |-> [i \in 0..(c - 1) |-> NullNodePtr],
                  mTop |-> tNodePtr(nullptr, 0), mFront |-> NullNodePtr, mBack |-> NullNodePtr]
    IN  IF k = "queue"
          THEN [AcquireIdxAlone(fresh) EXCEPT !.mFront = tNodePtr(FirstSlot(n), 0),
                                              !.mBack = tNodePtr(FirstSlot(n), 0)]
          ELSE fresh

\* the memory the observer finds: the stack and the queue hold one element
WrapStart(k, n) ==
    CASE k = "pool"  -> WrapConstructed(k, n)
      [] k = "stack" -> StackNonAtomicPushOf(WrapConstructed(k, n), 1).m
      [] k = "queue" -> QueueNonAtomicPushOf(WrapConstructed(k, n), 1).m

\* the first thread is the observer, the second one runs the pairs of calls;
\* the history starts empty, the element pushed before is not in it
InitWrap ==
    /\ InitThreads
    /\ serial = FALSE
    /\ consumers = {1}
    /\ producers = {2}
    /\ opsLeft = WrapBudget
    /\ requested = PoolCapacity
    /\ mCapacity = AllocateStorage(PoolCapacity)
    /\ \E k \in {"pool", "stack", "queue"} :
          /\ kind = k
          /\ mHead = WrapStart(k, PoolCapacity).mHead
          /\ mStorage = WrapStart(k, PoolCapacity).mStorage
          /\ mPrev = WrapStart(k, PoolCapacity).mPrev
          /\ mTop = WrapStart(k, PoolCapacity).mTop
          /\ mFront = WrapStart(k, PoolCapacity).mFront
          /\ mBack = WrapStart(k, PoolCapacity).mBack
    /\ nHeld = [i \in Slots |-> IF i \in Range(FreeList) THEN 0 ELSE 1]
    /\ qNodes = <<>>
    /\ nAcquired = Cardinality({i \in Slots : i \notin Range(FreeList)})

\* thread t is between its read of mFront and its CAS in Pop of the queue
QueuePopInFlight(t) == pc[t] \in {"q_pop_prev", "q_pop_cas"}

\* thread t holds a value of the head, the top or the front for a CAS
WrapInFlight(t) == AcquireInFlight(t) \/ PopInFlight(t) \/ QueuePopInFlight(t)

\* the tag increments since thread t read that value
WrapSeen(t) == IF AcquireInFlight(t) THEN acqSince[t] ELSE popSince[t]

\* the observer calls Acquire on the pool, Pop on the stack or on the queue
WrapObserve(t) ==
    /\ t \in consumers
    /\ pc[t] = "idle"
    /\ opsLeft = WrapBudget
    /\ op' = Upd(op, t, CASE kind = "pool" -> "Acquire" [] kind = "stack" -> "Pop" [] kind = "queue" -> "QPop")
    /\ pc' = Upd(pc, t, CASE kind = "pool" -> "acq_load" [] kind = "stack" -> "s_pop_load"
                          [] kind = "queue" -> "q_pop_load")
    /\ UNCHANGED <<cfgVars, poolVars, contVars, arg, head_tmp, next, idx, old, prev, old_back, result, retval>>
    /\ UNCHANGED weakVars
    /\ UNCHANGED histVars

\* a pair of calls of one thread that raises the tag by one and leaves the
\* same slot at the head and the same node on top: Acquire and Release of
\* the head slot, Push and Pop on the stack; on the queue Pop and Push of
\* the value popped, after two of which the same node is at the front
WrapPair(m) ==
    CASE kind = "pool"  -> ReleaseIdxAlone(AcquireIdxAlone(m), m.mHead.mIdx)
      [] kind = "stack" -> StackNonAtomicPopOf(StackNonAtomicPushOf(m, 1).m).m
      [] kind = "queue" -> QueueNonAtomicPushOf(QueueNonAtomicPopOf(m).m, m.mStorage[m.mFront.ptr]).m

\* both calls of the pair succeed on memory m
WrapCanPair(m) ==
    IF kind = "queue" THEN m.mPrev[m.mFront.ptr].ptr # nullptr ELSE ~IsNull(m.mHead.mIdx)

RECURSIVE WrapPairs(_, _)
WrapPairs(m, n) ==
    IF n = 0 THEN m
    ELSE LET after == WrapPair(m)
         IN  IF after = m THEN m ELSE WrapPairs(after, n - 1)

\* while the observer is suspended between its load and its CAS, thread t
\* runs n pairs of calls, each call from start to end; n is one, or a whole
\* batch when a batch starts; the pairs are not entered in the history
WrapCycle(t) ==
    /\ t \in producers
    /\ pc[t] = "idle"
    /\ WrapCanPair(Snapshot)
    /\ \E o \in consumers, n \in {1, WrapStride} :
          /\ WrapInFlight(o)
          /\ opsLeft + WrapSeen(o) = WrapBudget
          /\ n = 1 \/ WrapSeen(o) % WrapStride = 0
          /\ opsLeft >= n
          /\ opsLeft' = opsLeft - n
          /\ mHead' = WrapPairs(Snapshot, n).mHead
          /\ mStorage' = WrapPairs(Snapshot, n).mStorage
          /\ mPrev' = WrapPairs(Snapshot, n).mPrev
          /\ mTop' = WrapPairs(Snapshot, n).mTop
          /\ mFront' = WrapPairs(Snapshot, n).mFront
          /\ mBack' = WrapPairs(Snapshot, n).mBack
          /\ acqSince' = [u \in Threads |-> IF AcquireInFlight(u) THEN acqSince[u] + n
                                              ELSE acqSince[u]]
          /\ popSince' = [u \in Threads |->
                             IF kind # "pool" /\ (PopInFlight(u) \/ QueuePopInFlight(u))
                               THEN popSince[u] + n ELSE popSince[u]]
          /\ nAcquired' = (nAcquired + n) % IndexModulus
    /\ UNCHANGED <<cfgVars, locVars>>
    /\ UNCHANGED weakVars
    /\ UNCHANGED <<nHeld, held, pushOrder, popOrder, ticket, absStack, nodeStack, sawEmpty, nSteps, acqFails, missed, pre, last, qNodes, built>>

NextWrap ==
    \E t \in Threads :
        \/ WrapObserve(t)
        \/ WrapCycle(t)
        \/ AcquireLoad(t)
        \/ AcquireReadNext(t)
        \/ AcquireCASOk(t)
        \/ AcquireCASFail(t)
        \/ StackPopLoad(t)
        \/ StackPopReadPrev(t)
        \/ StackPopCASOk(t)
        \/ StackPopCASFail(t)
        \/ StackPopMove(t)
        \/ QueuePopLoad(t)
        \/ QueuePopReadPrev(t)
        \/ QueuePopCASOk(t)
        \/ QueuePopCASFail(t)
        \/ QueuePopMove(t)
        \/ ReleaseLoad(t)
        \/ ReleaseWriteNext(t)
        \/ ReleaseCASOk(t)
        \/ Return(t)

SpecWrap == InitWrap /\ [][NextWrap]_vars

\* C30: a thread whose value of the pool head, the stack top or the queue
\* front is stale has its CAS accepted only after at least 2^16 tag
\* increments (successful Acquires, successful Pops) since it read the value;
\* after fewer increments the word differs from the value it holds.
C30_TagWrapBound ==
    \A t \in Threads :
        /\ (AcquireInFlight(t) /\ acqSince[t] > 0 /\ acqSince[t] < IndexModulus)
              => mHead # head_tmp[t]
        /\ (PopInFlight(t) /\ popSince[t] > 0 /\ popSince[t] < TagModulus)
              => mTop # old[t]
        /\ (QueuePopInFlight(t) /\ popSince[t] > 0 /\ popSince[t] < TagModulus)
              => mFront # old[t]

\* 2^16 Acquires succeeded since a thread read mHead, and its CAS is accepted
C30_Witness ==
    \E t \in Threads :
        /\ pc[t] = "acq_cas"
        /\ acqSince[t] = IndexModulus
        /\ mHead = head_tmp[t]

\* 2^16 Pops succeeded since a thread read mTop, and its CAS is accepted
C30_WitnessTop ==
    \E t \in Threads :
        /\ pc[t] = "s_pop_cas"
        /\ popSince[t] = TagModulus
        /\ mTop = old[t]

\* 2^16 Pops succeeded since a thread read mFront, and its CAS is accepted
C30_WitnessFront ==
    \E t \in Threads :
        /\ pc[t] = "q_pop_cas"
        /\ popSince[t] = TagModulus
        /\ mFront = old[t]

\* one increment less than 2^16, and the CAS is about to fail
C30_WitnessOneShort ==
    \E t \in Threads :
        /\ pc[t] = "s_pop_cas"
        /\ popSince[t] = TagModulus - 1
        /\ mTop.ptr = old[t].ptr
        /\ mTop # old[t]

\* ------------------------------------------ the MPMC queue's sentinel (C31)
\* the nodes met from node p along the mPrev links that are not null
RECURSIVE QueueChain(_, _)
QueueChain(p, fuel) ==
    IF p = nullptr \/ fuel = 0 THEN <<>>
    ELSE <<p>> \o QueueChain(mPrev[p].ptr, fuel - 1)

FrontChain == QueueChain(mFront.ptr, mCapacity + 1)

\* C31: in every state of an MPMC queue mBack points to a node the queue
\* holds, whose mPrev is null and whose data is not constructed; the nodes
\* reached from mFront along non-null mPrev links are the oldest nodes of the
\* queue, in order, none of them behind that sentinel; and the queue holds at
\* least one node.
C31_QueueSentinel ==
    /\ Len(qNodes) >= 1
    /\ mBack.ptr = qNodes[Len(qNodes)]
    /\ mFront.ptr = qNodes[1]
    /\ \A k \in 1..Len(qNodes) : nHeld[qNodes[k]] = 1
    /\ \A k, l \in 1..Len(qNodes) : k # l => qNodes[k] # qNodes[l]
    /\ mPrev[mBack.ptr].ptr = nullptr
    /\ mBack.ptr \notin built
    /\ Len(FrontChain) <= Len(qNodes)
    /\ FrontChain = SubSeq(qNodes, 1, Len(FrontChain))

\* after a Pop, a producer has exchanged mBack and not yet linked its node:
\* the links from mFront end before the sentinel, on a slot used again
C31_Witness ==
    /\ mFront.tag > 0
    /\ Len(qNodes) >= 3
    /\ Len(FrontChain) < Len(qNodes)
    /\ built # {}
    /\ \E k \in 1..Len(qNodes) : qNodes[k] = FirstSlot(mCapacity)

\* ------------------------------- publication in the MPMC queue (C32)
\* thread t is between its exchange on mBack and its store to old_back->mPrev
OwnsOldBack(t) == pc[t] \in {"q_setdata", "q_store"}

\* thread u is at a SetData or at a move out of GetData of node i
AtQueueData(u, i) ==
    \/ pc[u] = "q_setdata" /\ old_back[u].ptr = i
    \/ pc[u] = "q_pop_data" /\ old[u].ptr = i

\* thread u is at the read of node->mNext in AcquireIdx or at the write of
\* node->mNext in ReleaseIdx, on slot i: the bytes the data of node i lies in
AtPoolNext(u, i) ==
    \/ pc[u] = "acq_next" /\ head_tmp[u].mIdx = i
    \/ pc[u] = "rel_write" /\ idx[u] = i

\* thread u is at a CAS on mFront that detaches node i, or inside the
\* Release of node i
AtDetachOrRelease(u, i) ==
    \/ pc[u] = "q_pop_cas" /\ old[u].ptr = i /\ mFront = old[u]
    \/ pc[u] \in {"rel_load", "rel_write", "rel_cas"} /\ idx[u] = i

\* a Pop moves its result out of a node whose data a Push has constructed
C32_PopMovesBuilt ==
    \A u \in Threads : pc[u] = "q_pop_data" => old[u].ptr \in built

\* no Pop detaches or releases the old_back a producer still has to link
C32_OldBackKept ==
    \A t, u \in Threads :
        (t # u /\ OwnsOldBack(t)) => ~AtDetachOrRelease(u, old_back[t].ptr)

\* no other Push or Pop is at the data of that old_back
C32_OldBackQueuePrivate ==
    \A t, u \in Threads :
        (t # u /\ OwnsOldBack(t)) => ~AtQueueData(u, old_back[t].ptr)

\* no other thread is at the bytes of that old_back's data at all
C32_OldBackPrivate ==
    \A t, u \in Threads :
        (t # u /\ OwnsOldBack(t)) =>
            ~(AtQueueData(u, old_back[t].ptr) \/ AtPoolNext(u, old_back[t].ptr))

\* C32: a Pop moves data only out of a node whose data the Push that filled
\* it has constructed; between a producer's exchange on mBack and its store
\* to old_back->mPrev no other thread reads or writes old_back's data, and no
\* Pop detaches or releases old_back.
C32_PublicationOrder ==
    /\ C32_PopMovesBuilt
    /\ C32_OldBackKept
    /\ C32_OldBackPrivate

\* ------------------------------------------------- tag of the pool's head (C33)
\* thread t's compare_exchange in AcquireIdx succeeds in this step
AcquireSucceeds(t) == AcquireCASStep(t) /\ mHead = head_tmp[t]

\* a successful Acquire adds one to the tag, modulo 2^w; every other step,
\* the steps of a Release and of an Acquire that returns null among them,
\* leaves the tag as it is
C33_TagStep ==
    IF \E t \in Threads : AcquireSucceeds(t)
      THEN mHead'.mTag = (mHead.mTag + 1) % IndexModulus
      ELSE mHead'.mTag = mHead.mTag

\* the tag of mHead is the number of Acquires that have succeeded, modulo 2^w
C33_TagCountsAcquires == mHead.mTag = nAcquired % IndexModulus

\* C33: the tag of mHead is 0 after construction, each successful Acquire adds
\* exactly 1 to it (modulo 2^w), every Release and every Acquire that returns
\* null leave it unchanged; at all times it is the number of successful
\* Acquires modulo 2^w.
C33_PoolTagPolicy ==
    /\ mHead.mTag = 0
    /\ [][C33_TagStep]_vars
    /\ []C33_TagCountsAcquires

\* several Acquires have succeeded, a released slot is the head of the free
\* list again, and a thread's Acquire is returning null to its caller
C33_Witness ==
    /\ nAcquired >= 2
    /\ mHead.mTag = nAcquired
    /\ \E i \in Slots : mHead.mIdx = i /\ nHeld[i] = 0 /\ mStorage[i] = NULL_IDX
    /\ \E t \in Threads : pc[t] = "ret" /\ idx[t] = NULL_IDX /\ ~retval[t]
                          /\ op[t] \in {"Acquire", "AcquirePtr"}

\* ------------------------------------------------- tag of the stack's top (C34)
\* thread t detaches the top in this step: the compare_exchange of Pop that
\* succeeds, or the store of NonAtomicPop on a stack that is not empty
StackPopSucceeds(t) ==
    \/ PopCASStep(t) /\ mTop = old[t]
    \/ pc[t] = "s_na_pop" /\ pc'[t] = "s_pop_data"

\* a successful Pop or NonAtomicPop adds one to the tag, modulo 2^16; every
\* other step, the link of a Push or NonAtomicPush among them, keeps the tag
C34_TagStep ==
    IF \E t \in Threads : StackPopSucceeds(t)
      THEN mTop'.tag = (mTop.tag + 1) % TagModulus
      ELSE mTop'.tag = mTop.tag

\* the tag of mTop is the number of Pops that have succeeded, modulo 2^16
C34_TagCountsPops == mTop.tag = Len(popOrder) % TagModulus

\* C34: each successful Pop or NonAtomicPop adds exactly 1 (modulo 2^16) to the
\* tag of mTop, each Push or NonAtomicPush keeps it (the new top carries the
\* tag of the top it replaced); at all times the tag is the number of
\* successful Pops modulo 2^16.
C34_StackTagPolicy ==
    /\ [][C34_TagStep]_vars
    /\ []C34_TagCountsPops

\* a NonAtomicPop has just detached the top after an earlier successful Pop,
\* and the element left on the stack was pushed after a Pop: its node
\* carries a tag that is not the first one
C34_Witness ==
    /\ kind = "stack"
    /\ Len(popOrder) >= 2
    /\ mTop.tag = Len(popOrder)
    /\ mTop.ptr # nullptr
    /\ mPrev[mTop.ptr].tag > 0
    /\ \E t \in Threads : pc[t] = "s_pop_data" /\ op[t] = "NAPop"

\* ------------------------------------------- the capacity of the pool (C35)
\* bound: the calls made on each pool
CapacityOps == 4

\* the capacities asked for: small ones, and the ones around the largest index
CapacityRequests == {1, 2, NULL_IDX - 1, NULL_IDX, IndexModulus}

\* cLockFreePool(n): the member initialisers have run, AllocateStorage(n) is
\* about to be called; the pool is then used one call at a time
InitCapacity ==
    /\ InitCallsOf(1..NumThreads)
    /\ mo = <<>>
    /\ view = <<>>
    /\ lifetime = "constructing"
    /\ requested \in CapacityRequests
    /\ mCapacity = 0
    /\ mHead = tIndexTag(NULL_IDX, 0)
    /\ mStorage = <<>>
    /\ mPrev = <<>>
    /\ nHeld = <<>>
    /\ qNodes = <<>>
    /\ nAcquired = 0
    /\ kind = "pool"
    /\ serial = TRUE
    /\ producers = {}
    /\ consumers = {}
    /\ opsLeft = CapacityOps
    /\ mTop = NullNodePtr
    /\ mFront = NullNodePtr
    /\ mBack = NullNodePtr

\* AllocateStorage: mCapacity = min(requested_capacity, max_capacity);
\* mStorage = mAlloc.allocate(mCapacity): raw memory, no slot written yet
PoolAllocate ==
    /\ lifetime = "constructing"
    /\ lifetime' = "allocated"
    /\ mCapacity' = AllocateStorage(requested)
    /\ UNCHANGED <<kind, serial, producers, consumers, requested>>
    /\ UNCHANGED weakVars
    /\ UNCHANGED <<poolVars, contVars, locVars, histVars>>

\* AllocateStorage: ReleaseAllPtrs(), the whole loop
PoolReleaseAll ==
    /\ lifetime = "allocated"
    /\ lifetime' = "live"
    /\ mHead' = ReleaseAllPtrsHead(mCapacity)
    /\ mStorage' = ReleaseAllPtrsNext(mCapacity)
    /\ mPrev' = [i \in 0..(mCapacity - 1) |-> NullNodePtr]
    /\ nHeld' = [i \in 0..(mCapacity - 1) |-> 0]
    /\ UNCHANGED <<kind, serial, producers, consumers, requested, mCapacity>>
    /\ UNCHANGED weakVars
    /\ UNCHANGED <<mTop, mFront, mBack, locVars>>
    /\ UNCHANGED <<opsLeft, held, pushOrder, popOrder, ticket, absStack, nodeStack, sawEmpty, nSteps, acqFails, missed, pre, last, acqSince, popSince, qNodes, built, nAcquired>>

NextCapacity ==
    \/ PoolAllocate
    \/ PoolReleaseAll
    \/ \E t \in Threads :
          \/ PoolAcquirePtr(t)
          \/ PoolRelease(t)
          \/ PoolStraight(t)

SpecCapacity == InitCapacity /\ [][NextCapacity]_vars

\* the pool's constructor has set mCapacity
CapacitySet == lifetime \in {"allocated", "live"}

\* what AllocateStorage leaves: min(n, max(tIndex) - 1)
C35_CapacityOfCode == CapacitySet => mCapacity = Min(requested, NULL_IDX - 1)

\* C35: a pool constructed with requested capacity n has capacity
\* min(n, 2^w - 1), where NULL_IDX = 2^w - 1: the largest capacity is 2^w - 1.
C35_MaxCapacity == CapacitySet => mCapacity = Min(requested, IndexModulus - 1)

\* ------------------------------------------------ indices stay in range (C36)
\* the values an index of the pool may take: a slot, or NULL_IDX
ValidIdx == Slots \cup {NULL_IDX}

\* thread t is returning a pointer from Acquire / AcquirePtr to its caller
ReturnsPointer(t) ==
    /\ op[t] \in {"Acquire", "AcquirePtr"}
    /\ pc[t] \in {"construct", "ret"}
    /\ retval[t]

\* every pointer handed out is mStorage + index with 0 <= index < capacity
C36_PointersInRange ==
    \A t \in Threads :
        /\ held[t] \subseteq Slots
        /\ ReturnsPointer(t) => idx[t] \in Slots

\* the index of mHead is a slot or NULL_IDX
C36_HeadInRange == mHead.mIdx \in ValidIdx

\* a compare_exchange of AcquireIdx that is about to succeed publishes the
\* next index of a slot that is free, as the slot holds it now
C36_NoStalePublish ==
    \A t \in Threads :
        (pc[t] = "acq_cas" /\ mHead = head_tmp[t]) =>
            /\ nHeld[head_tmp[t].mIdx] = 0
            /\ next[t] = mStorage[head_tmp[t].mIdx]
            /\ next[t] \in ValidIdx

\* C36: every pointer returned by Acquire or AcquirePtr has an index in
\* [0, capacity); the index of mHead is always below the capacity or NULL_IDX;
\* an index read from a slot that is no longer free is never published as the
\* head.
C36_IndexSafety ==
    /\ C36_PointersInRange
    /\ C36_HeadInRange
    /\ C36_NoStalePublish

\* a thread stands before its compare_exchange with an index it has read from
\* a slot another thread holds and has constructed a value in: the index is
\* neither a slot nor NULL_IDX
C36_Witness ==
    /\ \E t \in Threads :
          /\ pc[t] = "acq_cas"
          /\ nHeld[head_tmp[t].mIdx] = 1
          /\ next[t] \notin ValidIdx
    /\ \E u \in Threads : held[u] # {}

\* --------------------------------- the containers' releases to the pool (C37)
\* thread t is inside the Release of node i that ends its Pop
PopReleases(t, i) ==
    /\ op[t] \in PopOps
    /\ pc[t] \in {"rel_load", "rel_write", "rel_cas"}
    /\ idx[t] = i

\* thread t has detached node i by its Pop and has not released it yet
PopDetached(t, i) ==
    /\ op[t] \in PopOps
    /\ pc[t] \in {"s_pop_data", "q_pop_data", "rel_load", "rel_write", "rel_cas"}
    /\ old[t].ptr = i

\* node i is linked in the stack or in a queue: reachable from mTop or from
\* mFront along mPrev, the queue's back node, or a node a Push has acquired
\* or exchanged and still has to link
Linked(i) ==
    \/ i \in Range(QueueChain(mTop.ptr, mCapacity + 1))
    \/ i \in Range(FrontChain)
    \/ i = mBack.ptr
    \/ i \in Range(nodeStack)
    \/ kind = "queue" /\ i \in Range(qNodes)
    \/ \E u \in Threads :
          /\ op[u] \in PushOps
          /\ pc[u] \notin {"idle", "ret", "acq_load", "acq_next", "acq_cas"}
          /\ i \in {idx[u], old_back[u].ptr}

\* a node a Pop has detached is released by that Pop and by nobody else: as
\* long as the Pop has it, it is acquired once, off the free list, linked
\* nowhere, and no other thread has detached or releases it
C37_ReleasedByItsPop ==
    \A t \in Threads : \A i \in Slots :
        (PopDetached(t, i) \/ PopReleases(t, i)) =>
            /\ PopDetached(t, i)
            /\ nHeld[i] = 1
            /\ i \notin Range(FreeList)
            /\ ~Linked(i)
            /\ \A u \in Threads \ {t} :
                  /\ ~PopDetached(u, i)
                  /\ ~(pc[u] \in {"rel_load", "rel_write", "rel_cas"} /\ idx[u] = i)
                  /\ i \notin held[u]

\* the Release CAS of a Pop frees the node: one release for its acquisition
C37_ReleaseStep ==
    \A t \in Threads :
        (op[t] \in PopOps /\ pc[t] = "rel_cas" /\ pc'[t] = "ret") =>
            /\ nHeld[idx[t]] = 1
            /\ nHeld'[idx[t]] = 0
            /\ mHead'.mIdx = idx[t]

\* no node stays behind: with no call in progress every slot that is not
\* free is linked in a container or held by a caller of the pool
C37_NoneLeft ==
    Quiescent =>
        \A i \in Slots : nHeld[i] # 0 => (Linked(i) \/ \E t \in Threads : i \in held[t])

\* C37: the containers keep the pool's release precondition: every node is
\* released exactly once per acquisition, only by the Pop whose CAS detached
\* it, never while it is still linked and never when it is already free.
C37_ReleasePrecondition ==
    /\ []C37_ReleasedByItsPop
    /\ [][C37_ReleaseStep]_vars
    /\ []C37_NoneLeft

\* a Pop of the stack and a Pop of the queue are releasing their nodes to
\* the shared pool at the same time
C37_Witness ==
    \E t, u \in Threads :
        /\ op[t] = "Pop" /\ pc[t] = "rel_cas"
        /\ op[u] = "QPop" /\ pc[u] \in {"rel_write", "rel_cas"}
        /\ idx[t] # idx[u]

\* ------------------------------------------- the free list is a stack (C38)
\* the pool used by one call at a time
InitPoolSerial ==
    /\ InitThreads
    /\ InitPoolOf(PoolCapacity)
    /\ kind = "pool"
    /\ serial = TRUE
    /\ producers = {}
    /\ consumers = {}
    /\ opsLeft = PoolOps
    /\ mTop = NullNodePtr
    /\ mFront = NullNodePtr
    /\ mBack = NullNodePtr

NextPoolSerial ==
    \E t \in Threads :
        \/ PoolAcquire(t)
        \/ PoolAcquirePtr(t)
        \/ PoolRelease(t)
        \/ PoolConstruct(t)
        \/ PoolStraight(t)

SpecPoolSerial == InitPoolSerial /\ [][NextPoolSerial]_vars

\* thread t's Acquire / AcquirePtr is returning to its caller
AcquireReturns(t) == op[t] \in {"Acquire", "AcquirePtr"} /\ pc[t] = "ret"

\* the Acquires that succeeded before the call that is returning now
AcquiredBefore(t) == nAcquired - (IF retval[t] THEN 1 ELSE 0)

\* with no call in progress after ReleasePtr(p), p is the head of the free
\* list, and the Acquire that comes next returns p
C38_LastReleasedFirst ==
    /\ (Quiescent /\ last.op = "Release") => mHead.mIdx = last.idx
    /\ \A t \in Threads :
          (AcquireReturns(t) /\ last.op = "Release") =>
              retval[t] /\ idx[t] = last.idx

\* as long as nothing was released, the Acquires return the slots in the
\* reverse of the order ReleaseAllPtrs pushed them in: capacity - 1 first,
\* slot 0 last, then null
C38_ReverseOfConstruction ==
    \A t \in Threads :
        (AcquireReturns(t) /\ HeldDirectly = AcquiredBefore(t)) =>
            IF AcquiredBefore(t) < mCapacity
              THEN retval[t] /\ idx[t] = mCapacity - 1 - AcquiredBefore(t)
              ELSE ~retval[t]

\* C38: the free list of the pool is last-in first-out: in a quiescent state
\* after ReleasePtr(p) the next AcquirePtr returns p, and after construction
\* successive Acquires return the slots in the reverse of the order
\* ReleaseAllPtrs pushed them in.
C38_FreeListLIFO ==
    /\ C38_LastReleasedFirst
    /\ C38_ReverseOfConstruction

\* an Acquire returns the slot released by the call before it, ahead of a
\* slot that has been free since construction
C38_Witness ==
    \E t \in Threads :
        /\ AcquireReturns(t)
        /\ last.op = "Release"
        /\ idx[t] = last.idx
        /\ mHead.mIdx \in Slots
        /\ mHead.mIdx < idx[t]

\* ---------------------------------------------------------------------------
\* The MPMC queue and its pool under the C++11 memory model: every atomic
\* object and every slot word is a location with its writes in modification
\* order, every write carries the view its writer releases, every thread has
\* a view (the latest write of each location that happens before its next
\* step).  mHead, mStorage, mPrev, mFront and mBack keep the latest write of
\* their locations.
\* ---------------------------------------------------------------------------

\* operations started on the queue under the weak memory model
WeakOps == 5

LocHead == 0
LocFront == 1
LocBack == 2
\* the first word of slot i: tNode::mNext of the pool, mData of the queue's node
LocWord(i) == 3 + 2 * i
\* tQueueNode::mPrev of slot i
LocPrev(i) == 4 + 2 * i
Locs == 0..(2 + 2 * mCapacity)

Max(a, b) == IF a < b THEN b ELSE a

\* the view that has seen nothing but write ts of location l
NoView(l, ts) == [k \in Locs |-> IF k = l THEN ts ELSE 0]

Join(a, b) == [k \in Locs |-> Max(a[k], b[k])]

Seen(v, l, ts) == [v EXCEPT ![l] = Max(v[l], ts)]

Latest(l) == Len(mo[l])

\* the writes of location l a load of thread t may take its value from
Visible(t, l) == view[t][l]..Latest(l)

\* load(order) and the read of a plain word: it takes write ts; memory_order_acquire
\* joins the view that write released
WeakLoad(t, l, ts, acq) ==
    /\ ts \in Visible(t, l)
    /\ view' = Upd(view, t, IF acq THEN Join(Seen(view[t], l, ts), mo[l][ts].view)
                                   ELSE Seen(view[t], l, ts))
    /\ mo' = mo

\* store(v, order) and the write of a plain word: the last in modification order;
\* memory_order_release publishes the writer's view
WeakStore(t, l, v, rel) ==
    /\ view' = Upd(view, t, Seen(view[t], l, Latest(l) + 1))
    /\ mo' = Upd(mo, l, Append(mo[l],
                 [val |-> v,
                  view |-> IF rel THEN Seen(view[t], l, Latest(l) + 1)
                                  ELSE NoView(l, Latest(l) + 1)]))

\* a read-modify-write reads the last write in modification order and carries
\* on the release sequence that write belongs to
WeakRMW(t, l, v, acq, rel) ==
    /\ view' = Upd(view, t, Seen(IF acq THEN Join(view[t], mo[l][Latest(l)].view) ELSE view[t],
                                 l, Latest(l) + 1))
    /\ mo' = Upd(mo, l, Append(mo[l],
                 [val |-> v,
                  view |-> Seen(IF rel THEN Join(mo[l][Latest(l)].view, view'[t])
                                       ELSE mo[l][Latest(l)].view,
                                l, Latest(l) + 1)]))

\* the queue of InitQueueOf(n), whose threads start after its constructor: one
\* write per location, which every thread has seen
InitWeak ==
    /\ lifetime = "live"
    /\ InitCallsOf(1..NumThreads)
    /\ InitPoolWithSentinel(LocalPoolSize(QueueSize))
    /\ mStorage = ReleaseAllPtrsNext(AllocateStorage(LocalPoolSize(QueueSize)))
    /\ kind = "queue"
    /\ mFront = tNodePtr(FirstSlot(LocalPoolSize(QueueSize)), 0)
    /\ mBack = tNodePtr(FirstSlot(LocalPoolSize(QueueSize)), 0)
    /\ mTop = NullNodePtr
    /\ serial = FALSE
    /\ producers = {1}
    /\ consumers = 1..NumThreads
    /\ opsLeft = WeakOps
    /\ mo = [l \in Locs |->
               <<[val |-> CASE l = LocHead -> mHead
                            [] l = LocFront -> mFront
                            [] l = LocBack -> mBack
                            [] l > LocBack /\ l % 2 = 1 -> mStorage[(l - 3) \div 2]
                            [] OTHER -> mPrev[(l - 4) \div 2],
                  view |-> [k \in Locs |-> 1]]>>]
    /\ view = [t \in 1..NumThreads |-> [k \in Locs |-> 1]]

\* AcquireIdx: tIndexTag head_tmp = mHead.load(std::memory_order_relaxed);
WeakAcquireLoad(t) ==
    /\ pc[t] = "acq_load"
    /\ \E ts \in Visible(t, LocHead) :
        /\ WeakLoad(t, LocHead, ts, FALSE)
        /\ head_tmp' = Upd(head_tmp, t, mo[LocHead][ts].val)
        /\ IF IsNull(mo[LocHead][ts].val.mIdx)
             THEN AcquireReturn(t, NULL_IDX)
             ELSE /\ pc' = Upd(pc, t, "acq_next")
                  /\ UNCHANGED <<idx, retval>>
    /\ Tick(t)
    /\ UNCHANGED <<cfgVars, poolVars, contVars, op, arg, next, old, prev, old_back, result>>
    /\ UNCHANGED <<opsLeft, nHeld, held, pushOrder, popOrder, ticket, absStack, nodeStack, sawEmpty, acqFails, missed, pre, last, popSince, qNodes, built, nAcquired>>
    /\ acqSince' = Upd(acqSince, t, 0)

\* AcquireIdx: the plain read of GetNode(head_tmp.mIdx)->mNext
WeakAcquireReadNext(t) ==
    /\ pc[t] = "acq_next"
    /\ \E ts \in Visible(t, LocWord(head_tmp[t].mIdx)) :
        /\ WeakLoad(t, LocWord(head_tmp[t].mIdx), ts, FALSE)
        /\ next' = Upd(next, t, mo[LocWord(head_tmp[t].mIdx)][ts].val)
    /\ pc' = Upd(pc, t, "acq_cas")
    /\ Tick(t)
    /\ UNCHANGED <<cfgVars, poolVars, contVars, op, arg, head_tmp, idx, old, prev, old_back, result, retval>>
    /\ UNCHANGED <<opsLeft, nHeld, held, pushOrder, popOrder, ticket, absStack, nodeStack, sawEmpty, acqFails, missed, pre, last, acqSince, popSince, qNodes, built, nAcquired>>

\* AcquireIdx: compare_exchange_weak(head_tmp, new_head, acq_rel, acquire) succeeds
WeakAcquireCASOk(t) ==
    /\ pc[t] = "acq_cas"
    /\ mHead = head_tmp[t]
    /\ mHead' = AcquireNewHead(next[t], head_tmp[t])
    /\ WeakRMW(t, LocHead, AcquireNewHead(next[t], head_tmp[t]), TRUE, TRUE)
    /\ nHeld' = Upd(nHeld, head_tmp[t].mIdx, nHeld[head_tmp[t].mIdx] + 1)
    /\ next' = Upd(next, t, 0)
    /\ AcquireReturn(t, head_tmp[t].mIdx)
    /\ Tick(t)
    /\ UNCHANGED <<cfgVars, mStorage, contVars, op, arg, head_tmp, old, prev, old_back, result>>
    /\ UNCHANGED <<opsLeft, held, pushOrder, popOrder, ticket, absStack, nodeStack, sawEmpty, acqFails, missed, pre, last, popSince, qNodes, built>>
    /\ acqSince' = [u \in Threads |-> IF u # t /\ pc[u] \in {"acq_next", "acq_cas"}
                                       THEN acqSince[u] + 1 ELSE 0]
    /\ nAcquired' = (nAcquired + 1) % IndexModulus

\* AcquireIdx: the compare-exchange fails and loads mHead with memory_order_acquire
WeakAcquireCASFail(t) ==
    /\ pc[t] = "acq_cas"
    /\ \E ts \in Visible(t, LocHead) :
        /\ mo[LocHead][ts].val # head_tmp[t]
        /\ WeakLoad(t, LocHead, ts, TRUE)
        /\ head_tmp' = Upd(head_tmp, t, mo[LocHead][ts].val)
        /\ IF IsNull(mo[LocHead][ts].val.mIdx)
             THEN AcquireReturn(t, NULL_IDX)
             ELSE /\ pc' = Upd(pc, t, "acq_next")
                  /\ UNCHANGED <<idx, retval>>
    /\ next' = Upd(next, t, 0)
    /\ Tick(t)
    /\ acqFails' = IF op[t] \in {"QPush", "MPush"} THEN Upd(acqFails, t, acqFails[t] + 1)
                   ELSE acqFails
    /\ UNCHANGED <<cfgVars, poolVars, contVars, op, arg, old, prev, old_back, result>>
    /\ UNCHANGED <<opsLeft, nHeld, held, pushOrder, popOrder, ticket, absStack, nodeStack, sawEmpty, missed, pre, last, popSince, qNodes, built, nAcquired>>
    /\ acqSince' = Upd(acqSince, t, 0)

\* ReleaseIdx: tIndexTag head_tmp = mHead.load(std::memory_order_relaxed);
WeakReleaseLoad(t) ==
    /\ pc[t] = "rel_load"
    /\ \E ts \in Visible(t, LocHead) :
        /\ WeakLoad(t, LocHead, ts, FALSE)
        /\ head_tmp' = Upd(head_tmp, t, mo[LocHead][ts].val)
    /\ pc' = Upd(pc, t, "rel_write")
    /\ UNCHANGED <<cfgVars, poolVars, contVars, op, arg, next, idx, old, prev, old_back, result, retval>>
    /\ UNCHANGED histVars

\* ReleaseIdx: node->mNext.mIdx = head_tmp.mIdx, a plain write
WeakReleaseWriteNext(t) ==
    /\ pc[t] = "rel_write"
    /\ mStorage' = Upd(mStorage, idx[t], head_tmp[t].mIdx)
    /\ WeakStore(t, LocWord(idx[t]), head_tmp[t].mIdx, FALSE)
    /\ pc' = Upd(pc, t, "rel_cas")
    /\ UNCHANGED <<cfgVars, mHead, contVars, op, arg, head_tmp, next, idx, old, prev, old_back, result, retval>>
    /\ UNCHANGED histVars

\* ReleaseIdx: compare_exchange_weak(head_tmp, new_head, acq_rel, acquire) succeeds
WeakReleaseCASOk(t) ==
    /\ pc[t] = "rel_cas"
    /\ mHead = head_tmp[t]
    /\ mHead' = tIndexTag(idx[t], head_tmp[t].mTag)
    /\ WeakRMW(t, LocHead, tIndexTag(idx[t], head_tmp[t].mTag), TRUE, TRUE)
    /\ nHeld' = Upd(nHeld, idx[t], nHeld[idx[t]] - 1)
    /\ pc' = Upd(pc, t, "ret")
    /\ retval' = Upd(retval, t, TRUE)
    /\ UNCHANGED <<cfgVars, mStorage, contVars, op, arg, head_tmp, next, idx, old, prev, old_back, result>>
    /\ UNCHANGED <<opsLeft, held, pushOrder, popOrder, ticket, absStack, nodeStack, sawEmpty, nSteps, acqFails, missed, pre, last, acqSince, popSince, qNodes, built, nAcquired>>

\* ReleaseIdx: the compare-exchange fails and loads mHead with memory_order_acquire
WeakReleaseCASFail(t) ==
    /\ pc[t] = "rel_cas"
    /\ \E ts \in Visible(t, LocHead) :
        /\ mo[LocHead][ts].val # head_tmp[t]
        /\ WeakLoad(t, LocHead, ts, TRUE)
        /\ head_tmp' = Upd(head_tmp, t, mo[LocHead][ts].val)
    /\ pc' = Upd(pc, t, "rel_write")
    /\ UNCHANGED <<cfgVars, poolVars, contVars, op, arg, next, idx, old, prev, old_back, result, retval>>
    /\ UNCHANGED histVars

\* AcquireNewNode: the node is constructed in the slot, mPrev(nullptr); the
\* initialisation of an atomic object is a plain write
WeakQueueConstruct(t) ==
    /\ pc[t] = "q_ctor"
    /\ mPrev' = Upd(mPrev, idx[t], NullNodePtr)
    /\ WeakStore(t, LocPrev(idx[t]), NullNodePtr, FALSE)
    /\ pc' = Upd(pc, t, "q_xchg")
    /\ Tick(t)
    /\ UNCHANGED <<cfgVars, poolVars, mTop, mFront, mBack, op, arg, head_tmp, next, idx, old, prev, old_back, result, retval>>
    /\ UNCHANGED <<opsLeft, nHeld, held, pushOrder, popOrder, ticket, absStack, nodeStack, acqFails, missed, pre, last, acqSince, popSince, qNodes, built, nAcquired>>
    /\ TrackEmpty

\* 1. tNodePtr old_back = mBack.exchange(new_back, memory_order_acq_rel);
WeakQueueExchange(t) ==
    /\ pc[t] = "q_xchg"
    /\ old_back' = Upd(old_back, t, mBack)
    /\ mBack' = tNodePtr(idx[t], 0)
    /\ WeakRMW(t, LocBack, tNodePtr(idx[t], 0), TRUE, TRUE)
    /\ pushOrder' = Append(pushOrder, arg[t])
    /\ ticket' = Upd(ticket, t, Len(pushOrder) + 1)
    /\ pc' = Upd(pc, t, "q_setdata")
    /\ Tick(t)
    /\ UNCHANGED <<cfgVars, poolVars, mPrev, mTop, mFront, op, arg, head_tmp, next, idx, old, prev, result, retval>>
    /\ UNCHANGED <<opsLeft, nHeld, held, popOrder, absStack, nodeStack, sawEmpty, acqFails, missed, pre, last, acqSince, popSince, built, nAcquired>>
    /\ qNodes' = Append(qNodes, idx[t])

\* 2. old_back->SetData(args...), plain writes
WeakQueueSetData(t) ==
    /\ pc[t] = "q_setdata"
    /\ mStorage' = Upd(mStorage, QueueDataNode(t), arg[t])
    /\ WeakStore(t, LocWord(QueueDataNode(t)), arg[t], FALSE)
    /\ pc' = Upd(pc, t, "q_store")
    /\ Tick(t)
    /\ UNCHANGED <<cfgVars, mHead, contVars, op, arg, head_tmp, next, idx, old, prev, old_back, result, retval>>
    /\ UNCHANGED <<opsLeft, nHeld, held, pushOrder, popOrder, ticket, absStack, nodeStack, sawEmpty, acqFails, missed, pre, last, acqSince, popSince, qNodes, nAcquired>>
    /\ built' = built \cup {QueueDataNode(t)}

\* 3. old_back->mPrev.store(new_back, memory_order_release);
WeakQueueStorePrev(t) ==
    /\ pc[t] = "q_store"
    /\ mPrev' = Upd(mPrev, old_back[t].ptr, tNodePtr(idx[t], 0))
    /\ WeakStore(t, LocPrev(old_back[t].ptr), tNodePtr(idx[t], 0), TRUE)
    /\ pc' = Upd(pc, t, "ret")
    /\ retval' = Upd(retval, t, TRUE)
    /\ Tick(t)
    /\ UNCHANGED <<cfgVars, poolVars, mTop, mFront, mBack, op, arg, head_tmp, next, idx, old, prev, old_back, result>>
    /\ UNCHANGED <<opsLeft, nHeld, held, pushOrder, popOrder, ticket, absStack, nodeStack, acqFails, missed, pre, last, acqSince, popSince, qNodes, built, nAcquired>>
    /\ TrackEmpty

\* tNodePtr old_front(mFront.load(memory_order_relaxed));
WeakQueuePopLoad(t) ==
    /\ pc[t] = "q_pop_load"
    /\ \E ts \in Visible(t, LocFront) :
        /\ WeakLoad(t, LocFront, ts, FALSE)
        /\ old' = Upd(old, t, mo[LocFront][ts].val)
    /\ pc' = Upd(pc, t, "q_pop_prev")
    /\ UNCHANGED <<cfgVars, poolVars, contVars, op, arg, head_tmp, next, idx, prev, old_back, result, retval>>
    /\ UNCHANGED <<opsLeft, nHeld, held, pushOrder, popOrder, ticket, absStack, nodeStack, sawEmpty, nSteps, acqFails, missed, pre, last, acqSince, qNodes, built, nAcquired>>
    /\ popSince' = Upd(popSince, t, 0)

\* tNodePtr old_front_prev(old_front->mPrev.load(memory_order_acquire));
WeakQueuePopReadPrev(t) ==
    /\ pc[t] = "q_pop_prev"
    /\ \E ts \in Visible(t, LocPrev(old[t].ptr)) :
        /\ WeakLoad(t, LocPrev(old[t].ptr), ts, TRUE)
        /\ prev' = Upd(prev, t, mo[LocPrev(old[t].ptr)][ts].val)
    /\ pc' = Upd(pc, t, IF prev'[t].ptr = nullptr THEN "ret" ELSE "q_pop_cas")
    /\ retval' = Upd(retval, t, FALSE)
    /\ missed' = IF prev'[t].ptr = nullptr THEN missed \cup PushedNotPopped ELSE missed
    /\ UNCHANGED <<cfgVars, poolVars, contVars, op, arg, head_tmp, next, idx, old, old_back, result>>
    /\ UNCHANGED <<opsLeft, nHeld, held, pushOrder, popOrder, ticket, absStack, nodeStack, sawEmpty, nSteps, acqFails, pre, last, acqSince, qNodes, built, nAcquired>>
    /\ popSince' = IF prev'[t].ptr = nullptr THEN Upd(popSince, t, 0) ELSE popSince

\* mFront.compare_exchange_weak(old_front, new_front, memory_order_relaxed,
\* memory_order_relaxed) succeeds
WeakQueuePopCASOk(t) ==
    /\ pc[t] = "q_pop_cas"
    /\ mFront = old[t]
    /\ mFront' = tNodePtr(prev[t].ptr, (old[t].tag + 1) % TagModulus)
    /\ WeakRMW(t, LocFront, tNodePtr(prev[t].ptr, (old[t].tag + 1) % TagModulus), FALSE, FALSE)
    /\ TakeTicket(t, QueueFrontValue)
    /\ pc' = Upd(pc, t, "q_pop_data")
    /\ UNCHANGED <<cfgVars, poolVars, mPrev, mTop, mBack, op, arg, head_tmp, next, idx, old, prev, old_back, result, retval>>
    /\ UNCHANGED <<opsLeft, nHeld, held, pushOrder, absStack, nodeStack, nSteps, acqFails, missed, pre, last, acqSince, built, nAcquired>>
    /\ popSince' = [u \in Threads |-> IF u # t /\ pc[u] \in {"q_pop_prev", "q_pop_cas"}
                                       THEN popSince[u] + 1 ELSE 0]
    /\ TrackEmpty
    /\ qNodes' = IF qNodes = <<>> THEN <<>> ELSE Tail(qNodes)

\* the compare-exchange fails: old_front takes the value it loaded,
\* old_front_prev = old_front->mPrev.load(memory_order_acquire)
WeakQueuePopCASFail(t) ==
    /\ pc[t] = "q_pop_cas"
    /\ \E ts \in Visible(t, LocFront) :
        /\ mo[LocFront][ts].val # old[t]
        /\ WeakLoad(t, LocFront, ts, FALSE)
        /\ old' = Upd(old, t, mo[LocFront][ts].val)
    /\ prev' = Upd(prev, t, NullNodePtr)
    /\ pc' = Upd(pc, t, "q_pop_prev")
    /\ UNCHANGED <<cfgVars, poolVars, contVars, op, arg, head_tmp, next, idx, old_back, result, retval>>
    /\ UNCHANGED <<opsLeft, nHeld, held, pushOrder, popOrder, ticket, absStack, nodeStack, sawEmpty, nSteps, acqFails, missed, pre, last, acqSince, qNodes, built, nAcquired>>
    /\ popSince' = Upd(popSince, t, 0)

\* result = move(old_front->GetData()), plain reads; mNodePool.Release(*old_front)
WeakQueuePopMove(t) ==
    /\ pc[t] = "q_pop_data"
    /\ \E ts \in Visible(t, LocWord(QueuePopSource(t))) :
        /\ WeakLoad(t, LocWord(QueuePopSource(t)), ts, FALSE)
        /\ result' = Upd(result, t, mo[LocWord(QueuePopSource(t))][ts].val)
    /\ popOrder' = Upd(popOrder, ticket[t], [popOrder[ticket[t]] EXCEPT !.got = result'[t]])
    /\ idx' = Upd(idx, t, old[t].ptr)
    /\ pc' = Upd(pc, t, "rel_load")
    /\ UNCHANGED <<cfgVars, poolVars, contVars, op, arg, head_tmp, next, old, prev, old_back, retval>>
    /\ UNCHANGED <<opsLeft, nHeld, held, pushOrder, ticket, absStack, nodeStack, sawEmpty, nSteps, acqFails, missed, pre, last, acqSince, popSince, qNodes, nAcquired>>
    /\ built' = built \ {old[t].ptr}

WeakStep(t) ==
    \/ WeakAcquireLoad(t)
    \/ WeakAcquireReadNext(t)
    \/ WeakAcquireCASOk(t)
    \/ WeakAcquireCASFail(t)
    \/ WeakReleaseLoad(t)
    \/ WeakReleaseWriteNext(t)
    \/ WeakReleaseCASOk(t)
    \/ WeakReleaseCASFail(t)
    \/ WeakQueueConstruct(t)
    \/ WeakQueueExchange(t)
    \/ WeakQueueSetData(t)
    \/ WeakQueueStorePrev(t)
    \/ WeakQueuePopLoad(t)
    \/ WeakQueuePopReadPrev(t)
    \/ WeakQueuePopCASOk(t)
    \/ WeakQueuePopCASFail(t)
    \/ WeakQueuePopMove(t)

NextWeak ==
    \E t \in Threads :
        \/ QueuePush(t)
        \/ QueuePop(t)
        \/ Return(t)
        \/ WeakStep(t)

SpecWeak == InitWeak /\ [][NextWeak]_vars

\* C39: under the C++11 memory model, with mFront loaded and compare-exchanged
\* relaxed and only mPrev loaded with acquire and stored with release, a
\* consumer that wins the compare-exchange holds a node whose data is
\* constructed and whose construction it has seen, and no two consumers hold
\* the same detached node.
C39_RelaxedFrontSuffices ==
    \A t \in Threads :
        pc[t] = "q_pop_data" =>
            /\ old[t].ptr \in built
            /\ view[t][LocWord(old[t].ptr)] = Latest(LocWord(old[t].ptr))
            /\ \A u \in Threads \ {t} : pc[u] = "q_pop_data" => old[u].ptr # old[t].ptr

=============================================================================
